---- MODULE Spec2Model ----
(***************************************************************************)
(* State-machine model of the claude-swarm orchestrator core:              *)
(*   - the state store and dependency graph (store/memoryStore,            *)
(*     store/redis.ts, scheduler/dependencyGraph.ts, scheduler/index.ts),  *)
(*   - the local server (local.ts) with its provider-polled completion,    *)
(*   - the queue-driven orchestrator (index.ts),                           *)
(*   - the smart scheduler (scheduler/taskScheduler.ts),                   *)
(*   - the conflict monitor (monitoring/conflictMonitor.ts).               *)
(*                                                                         *)
(* Every handler is split at the points where it awaits real I/O (store    *)
(* round trips of the durable backend, provider calls, timers); the code   *)
(* between two such points is one atomic action, as on the event loop.     *)
(***************************************************************************)
EXTENDS Naturals, Integers, Sequences, FiniteSets, TLC

\* ---------------------------------------------------------------- bounds
MaxTasks == 3
MaxCallers == 2
MaxEdges == 3
MaxExecs == 2
MaxInflight == 1
MaxParallelAgents == 1
DailyLimitCents == 150
MaxFiles == 2
MaxFileList == 2
MaxAgents == 2
MaxScore == 1
MaxConcurrentPerAgent == 1
MaxTimeoutSec == 12
MaxRunSec == 8
MaxHierTasks == 4
MaxDepth == 2
MaxSubTasksPerAgent == 2
MaxRequests == 3
PeerTimeoutTicks == 2
MaxMessages == 5
MaxClients == 2
MaxBroadcasts == 2
BufferSize == 1
MaxReceived == 2
MaxErrors == 3
MaxResults == 2
MaxUpdated == 2
MaxMillis == 2

\* the two result costs local.ts itself produces (sonnet, opus)
SonnetCostCents == 75
OpusCostCents == 150
PollIntervalSec == 5
DefaultMaxRetries == 3
DefaultBaseDelayMs == 1000
DefaultMaxDelayMs == 30000
DefaultJitterPercent == 30
ExperienceCap == 100
ExperienceDivisor == 500
NoIdleConfidencePct == 50
LittleDataCount == 5
SomeDataCount == 20

TaskIds == 1..MaxTasks
Callers == 1..MaxCallers
ExecIds == 1..MaxExecs
NoId == 0
Priorities == {"high", "normal", "low"}
ProviderStatuses == {"completed", "failed", "timeout"}
Outcomes == {"status", "scoring", "locks", "budget", "broadcast"}
ResultStatuses == {"success", "partial", "failed"}
Costs == {SonnetCostCents, OpusCostCents}
Files == 1..MaxFiles
AgentIds == 1..MaxTasks
SchedAgents == 1..MaxAgents
FileLists == UNION {[1..n -> Files] : n \in 0..MaxFileList}

VARIABLES
  tasks,          \* store.tasks: task id -> [status, assignedAgent, priority]
  dependencies,   \* store.dependencies: task id -> set of ids it depends on
  dependents,     \* store.dependents: task id -> set of ids depending on it
  calls,          \* graph API calls in flight, one slot per caller
  outcome,        \* what each caller's last addDependency/registerTask did
  execs,          \* executions started: [taskId, state]; state is the monitor's
                  \* position and the status of the execution's agent object
  agents,         \* local.ts agents map: agent id (derived from the task id)
                  \* -> the execution whose agent object is stored under it
  activeJobs,     \* executor.activeJobs: executions the provider tracks
  inflight,       \* POST /execute/:taskId handlers awaiting executeTask, per task
  batch,          \* POST /execute/batch: tasksToStart still to be started
  done,           \* per task, the completion outcomes that have taken effect
  messages,       \* index.ts: the task's message on its priority queue
  workers,        \* index.ts agents map: the agent spawned for each task
  results,        \* index.ts: the result message of each task's worker
  budget,         \* budgetStatus: dailyUsedCents, weeklyUsedCents, isPaused
  response,       \* the last POST /api/tasks response
  fileLocks,      \* ConflictMonitor.fileLocks: path -> holding agent (or none)
  agentFiles,     \* ConflictMonitor.agentFiles: agent -> its set of paths
  conflicts,      \* the events the last registerFileActivity returned
  decision,       \* the SchedulingDecision the last schedule() returned
  handed,         \* the ready tasks as the last ordering call returned them
  wait,           \* the waitForCompletion call in progress (times in seconds)
  hier,           \* HierarchicalTopology: taskDepth, taskTree, the tasks made
  mesh,           \* MeshTopology: requests, pendingResponses, message queue
  ws,             \* WsNotificationManager: clients, messageBuffer, what was sent
  retry,          \* the withRetry call in progress
  route,          \* the last routeTask call: what it saw and what it returned
  reassignments,  \* what the last rebalance() returned
  mock            \* MockAzureExecutor: the clock, activeJobs, executions started

graphVars == <<dependencies, dependents, calls, outcome>>
execVars == <<execs, agents, activeJobs, inflight, batch>>
queueVars == <<messages, workers, results, budget, response>>
monitorVars == <<fileLocks, agentFiles, conflicts>>
topoVars == <<hier, mesh, ws>>
utilVars == <<retry, route, reassignments, mock>>
libVars == <<handed, wait, topoVars, utilVars>>
localVars == <<execVars, done, queueVars, monitorVars, decision, libVars>>
vars == <<tasks, dependencies, dependents, calls, outcome,
          execs, agents, activeJobs, inflight, batch, done,
          messages, workers, results, budget, response,
          fileLocks, agentFiles, conflicts, decision, handed,
          wait, hier, mesh, ws, retry, route, reassignments, mock>>

Statuses == {"absent", "pending", "assigned", "running", "completed", "failed", "cancelled"}

AbsentTask == [status |-> "absent", assignedAgent |-> NoId, priority |-> "normal"]
NewTask == [status |-> "pending", assignedAgent |-> NoId, priority |-> "normal"]
FreeExec == [taskId |-> NoId, state |-> "free", costCents |-> 0]
EmptyDecision == [assignments |-> <<>>, deferred |-> <<>>, blocked |-> {}]
HierIds == 1..MaxHierTasks
\* a parentTaskId the handler has never seen
UnknownParent == MaxHierTasks + 1
ParentIds == HierIds \cup {UnknownParent}
EmptyHier == [tracked |-> {},
              taskDepth |-> [i \in HierIds |-> 0],
              taskTree |-> [p \in ParentIds |-> {}],
              toStore |-> {}, toQueue |-> {},
              outcome |-> "none"]
RequestIds == 1..MaxRequests
NoRequest == [timer |-> "none", age |-> 0, resolveCalls |-> 0, rejectCalls |-> 0]
EmptyMesh == [request |-> [r \in RequestIds |-> NoRequest],
              pendingResponses |-> {},
              messageQueue |-> <<>>,
              sent |-> 0,
              got |-> <<>>]
ClientIds == 1..MaxClients
NotificationTypes == {"task:created", "task:completed"}
\* a notification: its type and the taskId / agentId of its data (NoId: none)
Notification(type, taskId, agentId) ==
  [type |-> type, taskId |-> taskId, agentId |-> agentId]
\* the notifications broadcast: with and without a task, with and without
\* an agent, two about the same task
Notifications == { Notification("task:created", 1, NoId),
                   Notification("task:completed", 1, 1),
                   Notification("task:completed", 2, 1),
                   Notification("task:created", NoId, NoId) }
\* SubscriptionFilter with no component set
EmptyFilter == [hasTypes |-> FALSE, types |-> {},
                hasTaskIds |-> FALSE, taskIds |-> {},
                hasAgentIds |-> FALSE, agentIds |-> {}]
\* the filters a subscribe message carries
FilterMessages ==
  { [EmptyFilter EXCEPT !.hasTypes = TRUE, !.types = {"task:created"}],
    [EmptyFilter EXCEPT !.hasTaskIds = TRUE, !.taskIds = {1}],
    [EmptyFilter EXCEPT !.hasAgentIds = TRUE, !.agentIds = {1}] }
NoClient == [state |-> "none", filter |-> EmptyFilter, received |-> <<>>]
EmptyWs == [clients |-> [c \in ClientIds |-> NoClient],
            messageBuffer |-> <<>>,
            log |-> <<>>]
ErrorIds == 1..MaxErrors
ResultIds == 1..MaxResults
NoRetry == [pc |-> "idle", attempt |-> 0, calls |-> 0, lastError |-> NoId,
            thrown |-> <<>>, delayMs |-> 0, result |-> NoId, error |-> NoId,
            hasPredicate |-> FALSE, retryable |-> {}]
\* AgentPerformance on a grid: successRate in tenths, the normalised speed
\* and cost terms of calculateScore in quarters
Performances == [successTenths : {5, 10}, speedQuarters : {4},
                 costQuarters : {4}, completedCount : {0, ExperienceCap, ExperienceCap + 50},
                 lastUpdated : 1..MaxUpdated]
NoRoute == [called |-> FALSE, listed |-> <<>>, idle |-> {},
            metrics |-> [a \in SchedAgents |->
                           [successTenths |-> 5, speedQuarters |-> 4, costQuarters |-> 4,
                            completedCount |-> 0, lastUpdated |-> 1]],
            agentId |-> NoId, confidencePct |-> 0]
\* Date.now() in milliseconds since the executor was constructed
Millis == 0..MaxMillis
\* MockAzureExecutor after construction: no active job
EmptyMock == [now |-> 0, activeJobs |-> [m \in Millis |-> NoId], started |-> <<>>]
NoWait == [pc |-> "idle", exec |-> NoId, provider |-> "mock", timeout |-> 0,
           finishAt |-> 0, now |-> 0, status |-> "none", returnedAt |-> 0]
NothingHanded == [path |-> "none", backend |-> "memory", order |-> <<>>]
NoResult == [state |-> "none", status |-> "success", costCents |-> 0]
IdleCall == [pc |-> "idle", taskId |-> NoId, dependsOn |-> NoId,
             stack |-> {}, visited |-> {}, todo |-> {}]

NumEdges == LET RECURSIVE cnt(_)
                cnt(S) == IF S = {} THEN 0
                          ELSE LET t == CHOOSE x \in S : TRUE
                               IN Cardinality(dependencies[t]) + cnt(S \ {t})
            IN cnt(TaskIds)

Init ==
  /\ tasks = [t \in TaskIds |-> AbsentTask]
  /\ dependencies = [t \in TaskIds |-> {}]
  /\ dependents = [t \in TaskIds |-> {}]
  /\ calls = [c \in Callers |-> IdleCall]
  /\ outcome = [c \in Callers |-> "none"]
  /\ execs = [e \in ExecIds |-> FreeExec]
  /\ agents = [t \in TaskIds |-> NoId]
  /\ activeJobs = {}
  /\ inflight = [t \in TaskIds |-> 0]
  /\ batch = <<>>
  /\ done = [t \in TaskIds |-> {}]
  /\ messages = [t \in TaskIds |-> "none"]
  /\ workers = [t \in TaskIds |-> "none"]
  /\ results = [t \in TaskIds |-> NoResult]
  /\ budget = [dailyUsedCents |-> 0, weeklyUsedCents |-> 0, isPaused |-> FALSE]
  /\ response = [code |-> 0, paused |-> FALSE, stored |-> FALSE]
  /\ fileLocks = [f \in Files |-> NoId]
  /\ agentFiles = [a \in AgentIds |-> {}]
  /\ conflicts = <<>>
  /\ decision = EmptyDecision
  /\ handed = NothingHanded
  /\ wait = NoWait
  /\ hier = EmptyHier
  /\ mesh = EmptyMesh
  /\ ws = EmptyWs
  /\ retry = NoRetry
  /\ route = NoRoute
  /\ reassignments = <<>>
  /\ mock = EmptyMock

\* ------------------------------------------------- store: dependency edges
\* MemoryStore.addDependency / RedisStore.addDependency: forward and reverse
StoreAddDependency(taskId, dependsOn) ==
  /\ dependencies' = [dependencies EXCEPT ![taskId] = @ \cup {dependsOn}]
  /\ dependents' = [dependents EXCEPT ![dependsOn] = @ \cup {taskId}]

\* MemoryStore.removeDependency
StoreRemoveDependency(taskId, dependsOn) ==
  /\ dependencies' = [dependencies EXCEPT ![taskId] = @ \ {dependsOn}]
  /\ dependents' = [dependents EXCEPT ![dependsOn] = @ \ {taskId}]

\* ------------------------------------------------- dependency graph calls
\* DependencyGraph.addDependency entered: wouldCreateCycle's same-node test
\* runs at once; otherwise the DFS starts with stack = [dependsOn].
BeginAdd(c, t, d, rest) ==
  IF t = d
  THEN /\ calls' = [calls EXCEPT ![c] = IdleCall]
       /\ outcome' = [outcome EXCEPT ![c] = "cycle"]
  ELSE /\ calls' = [calls EXCEPT ![c] =
                      [pc |-> "dfs", taskId |-> t, dependsOn |-> d,
                       stack |-> {d}, visited |-> {}, todo |-> rest]]
       /\ outcome' = [outcome EXCEPT ![c] = "none"]

\* a caller invokes graph.addDependency(t, d)
AddDependencyCall(c, t, d) ==
  /\ calls[c].pc = "idle"
  /\ NumEdges < MaxEdges
  /\ BeginAdd(c, t, d, {})
  /\ UNCHANGED <<tasks, dependencies, dependents, localVars>>

\* a plausible slip: only the dependencies of dependsOn itself are pushed,
\* so the search stops one edge away from it
WouldCreateCycleStepShallow(c) ==
  /\ calls[c].pc = "dfs"
  /\ \E current \in calls[c].stack :
       LET rest == calls[c].stack \ {current} IN
       IF current = calls[c].taskId
       THEN /\ calls' = [calls EXCEPT ![c] = IdleCall]
            /\ outcome' = [outcome EXCEPT ![c] = "cycle"]
       ELSE LET stk == IF current = calls[c].dependsOn /\ current \notin calls[c].visited
                       THEN rest \cup dependencies[current]
                       ELSE rest
                vis == calls[c].visited \cup {current}
            IN /\ calls' = [calls EXCEPT ![c].stack = stk, ![c].visited = vis,
                                         ![c].pc = IF stk = {} THEN "write" ELSE "dfs"]
               /\ UNCHANGED outcome
  /\ UNCHANGED <<tasks, dependencies, dependents, localVars>>

\* one iteration of wouldCreateCycle's loop: pop, test, mark, read the
\* popped node's dependencies from the store (the await) and push them
WouldCreateCycleStep(c) ==
  /\ calls[c].pc = "dfs"
  /\ \E current \in calls[c].stack :
       LET rest == calls[c].stack \ {current} IN
       IF current = calls[c].taskId
       THEN \* cycle: addDependency throws, registerTask is abandoned
            /\ calls' = [calls EXCEPT ![c] = IdleCall]
            /\ outcome' = [outcome EXCEPT ![c] = "cycle"]
       ELSE LET stk == IF current \in calls[c].visited THEN rest
                       ELSE rest \cup dependencies[current]
                vis == calls[c].visited \cup {current}
            IN /\ calls' = [calls EXCEPT ![c].stack = stk, ![c].visited = vis,
                                         ![c].pc = IF stk = {} THEN "write" ELSE "dfs"]
               /\ UNCHANGED outcome
  /\ UNCHANGED <<tasks, dependencies, dependents, localVars>>

\* wouldCreateCycle returned false: the edge is written; registerTask then
\* moves on to its next dependency
AddDependencyWrite(c) ==
  /\ calls[c].pc = "write"
  /\ StoreAddDependency(calls[c].taskId, calls[c].dependsOn)
  /\ IF calls[c].todo = {}
     THEN /\ calls' = [calls EXCEPT ![c] = IdleCall]
          /\ outcome' = [outcome EXCEPT ![c] = "ok"]
     ELSE \E d \in calls[c].todo :
            BeginAdd(c, calls[c].taskId, d, calls[c].todo \ {d})
  /\ UNCHANGED <<tasks, localVars>>

\* a caller invokes graph.removeDependency(t, d)
RemoveDependencyCall(t, d) ==
  /\ d \in dependencies[t]
  /\ StoreRemoveDependency(t, d)
  /\ UNCHANGED <<tasks, calls, outcome, localVars>>

\* TaskScheduler.registerTask(task): store the task, then add each edge
RegisterTaskCall(c, t, deps) ==
  /\ calls[c].pc = "idle"
  /\ tasks[t].status = "absent"
  /\ NumEdges + Cardinality(deps) <= MaxEdges
  /\ tasks' = [tasks EXCEPT ![t] = NewTask]
  /\ IF deps = {}
     THEN /\ calls' = [calls EXCEPT ![c] = IdleCall]
          /\ outcome' = [outcome EXCEPT ![c] = "ok"]
     ELSE \E d \in deps : BeginAdd(c, t, d, deps \ {d})
  /\ UNCHANGED <<dependencies, dependents, localVars>>

NextGraph ==
  \/ \E c \in Callers, t \in TaskIds, d \in TaskIds : AddDependencyCall(c, t, d)
  \/ \E c \in Callers : WouldCreateCycleStep(c)
  \/ \E c \in Callers : AddDependencyWrite(c)
  \/ \E t \in TaskIds, d \in TaskIds : RemoveDependencyCall(t, d)
  \/ \E c \in Callers, t \in TaskIds, deps \in SUBSET TaskIds : RegisterTaskCall(c, t, deps)

SpecGraph == Init /\ [][NextGraph]_vars

\* the graph API used by one caller at a time: a call starts only when no
\* other call is in progress, so nothing changes the graph under a search
Quiet == \A c \in Callers : calls[c].pc = "idle"
AddDependencyAlone(c, t, d) == Quiet /\ AddDependencyCall(c, t, d)
RemoveDependencyAlone(t, d) == Quiet /\ RemoveDependencyCall(t, d)
RegisterTaskAlone(c, t, deps) == Quiet /\ RegisterTaskCall(c, t, deps)

NextGraphSeq ==
  \/ \E c \in Callers, t \in TaskIds, d \in TaskIds : AddDependencyAlone(c, t, d)
  \/ \E c \in Callers : WouldCreateCycleStep(c)
  \/ \E c \in Callers : AddDependencyWrite(c)
  \/ \E t \in TaskIds, d \in TaskIds : RemoveDependencyAlone(t, d)
  \/ \E c \in Callers, t \in TaskIds, deps \in SUBSET TaskIds : RegisterTaskAlone(c, t, deps)

SpecGraphSeq == Init /\ [][NextGraphSeq]_vars

\* ------------------------------------------------------- store predicates
\* a plausible slip: a dependency that is not in the store is skipped
AreDependenciesMetSkippingMissing(t) ==
  \A d \in dependencies[t] : tasks[d].status \in {"absent", "completed"}

\* MemoryStore.areDependenciesMet: a missing dependency counts as unmet
AreDependenciesMet(t) ==
  \A d \in dependencies[t] : tasks[d].status = "completed"

\* DependencyGraph.getReadyTasks: pending tasks whose dependencies are met
GetReadyTasks == {t \in TaskIds : tasks[t].status = "pending" /\ AreDependenciesMet(t)}

\* ascending sequence of a set of ids (the store lists tasks in insertion
\* order, and the server creates ids in ascending order)
RECURSIVE IdSeq(_)
IdSeq(S) == IF S = {} THEN <<>>
            ELSE LET m == CHOOSE x \in S : \A y \in S : x <= y
                 IN <<m>> \o IdSeq(S \ {m})

\* TaskScheduler.getQueueableTasks (scheduler/index.ts): the ready tasks
\* sorted by priority only; Array.sort is stable, so equal priorities keep
\* the store's listing order
GetQueueableTasks ==
  LET ready == IdSeq(GetReadyTasks)
      pick(p) == SelectSeq(ready, LAMBDA t : tasks[t].priority = p)
  IN pick("high") \o pick("normal") \o pick("low")

RECURSIVE ReachIn(_, _, _)
\* nodes reachable from S along the forward edges of the map dep
ReachIn(dep, S, seen) ==
  LET nxt == UNION {dep[x] : x \in S} \ seen
  IN IF nxt = {} THEN seen ELSE ReachIn(dep, nxt, seen \cup nxt)

\* DependencyGraph.wouldCreateCycle run without interruption on the map dep
WouldCreateCycle(dep, taskId, dependsOn) ==
  \/ taskId = dependsOn
  \/ taskId \in ({dependsOn} \cup ReachIn(dep, {dependsOn}, {}))

RECURSIVE RegisterEdges(_, _, _)
\* TaskScheduler.registerTask's loop over task.context.dependencies, run
\* without interruption: the forward map after it, stopping at the first
\* dependency that addDependency rejects
RegisterEdges(dep, t, deps) ==
  IF deps = {} THEN dep
  ELSE LET d == CHOOSE x \in deps : \A y \in deps : x <= y
       IN IF WouldCreateCycle(dep, t, d) THEN dep
          ELSE RegisterEdges([dep EXCEPT ![t] = @ \cup {d}], t, deps \ {d})

\* ---------------------------------------------------- local server (local.ts)
StoredIds == {t \in TaskIds : tasks[t].status # "absent"}
FreeExecIds == {e \in ExecIds : execs[e].state = "free"}
TotalInflight == LET RECURSIVE sum(_)
                     sum(S) == IF S = {} THEN 0
                               ELSE LET t == CHOOSE x \in S : TRUE
                                    IN inflight[t] + sum(S \ {t})
                 IN sum(TaskIds)
\* executions the model can still start
ExecRoom == Cardinality(FreeExecIds) - TotalInflight - Len(batch)

\* the provider derives the agent id from the task id
AgentOf(t) == t

\* POST /api/tasks with one task: a fresh id, stored pending, its edges
\* registered, queued.  The in-memory store never suspends the handler.
\* The dependency ids submitted are drawn from the ids already stored.
SubmitTaskLocal(deps, prio) ==
  /\ \E t \in TaskIds :
       /\ tasks[t].status = "absent"
       /\ \A u \in TaskIds : u < t => tasks[u].status # "absent"
       /\ deps \subseteq StoredIds
       /\ tasks' = [tasks EXCEPT ![t] =
                      [status |-> "pending", assignedAgent |-> NoId, priority |-> prio]]
       /\ dependencies' = RegisterEdges(dependencies, t, deps)
       /\ dependents' = [d \in TaskIds |->
                           {u \in TaskIds : d \in dependencies'[u]}]
  /\ UNCHANGED <<calls, outcome, localVars>>

\* POST /api/tasks/:id/cancel
CancelTaskLocal(t) ==
  /\ tasks[t].status # "absent"
  /\ tasks' = [tasks EXCEPT ![t].status = "cancelled"]
  /\ UNCHANGED <<graphVars, localVars>>

\* what both force-start handlers do once executor.executeTask has returned:
\* the provider tracks the job, the task is running, the agent is recorded
\* and monitorExecution starts waiting
StartExecution(t, e) ==
  /\ tasks' = [tasks EXCEPT ![t].status = "running", ![t].assignedAgent = AgentOf(t)]
  /\ execs' = [execs EXCEPT ![e] = [taskId |-> t, state |-> "waiting", costCents |-> 0]]
  /\ agents' = [agents EXCEPT ![AgentOf(t)] = e]
  /\ activeJobs' = activeJobs \cup {e}

\* POST /api/execute/:taskId up to its await of executor.executeTask
ExecuteTaskBegin(t) ==
  /\ tasks[t].status = "pending"
  /\ inflight[t] < MaxInflight
  /\ ExecRoom > 0
  /\ inflight' = [inflight EXCEPT ![t] = @ + 1]
  /\ UNCHANGED <<tasks, graphVars, execs, agents, activeJobs, batch, done, queueVars, monitorVars, decision, libVars>>

\* POST /api/execute/:taskId after executeTask returned
ExecuteTaskReturn(t) ==
  /\ inflight[t] > 0
  /\ inflight' = [inflight EXCEPT ![t] = @ - 1]
  /\ \E e \in FreeExecIds :
       /\ \A f \in FreeExecIds : e <= f
       /\ StartExecution(t, e)
  /\ UNCHANGED <<graphVars, batch, done, queueVars, monitorVars, decision, libVars>>

\* POST /api/execute/:taskId when executeTask threw (response 500)
ExecuteTaskThrow(t) ==
  /\ inflight[t] > 0
  /\ inflight' = [inflight EXCEPT ![t] = @ - 1]
  /\ UNCHANGED <<tasks, graphVars, execs, agents, activeJobs, batch, done, queueVars, monitorVars, decision, libVars>>

Min(a, b) == IF a < b THEN a ELSE b
Max(a, b) == IF a > b THEN a ELSE b

\* POST /api/execute/batch up to its first await of executor.executeTask
ExecuteBatchBegin ==
  /\ batch = <<>>
  /\ LET readyTasks == GetQueueableTasks
         maxToStart == MaxParallelAgents - Cardinality(activeJobs)
         tasksToStart == SubSeq(readyTasks, 1, Min(Len(readyTasks), Max(0, maxToStart)))
     IN /\ tasksToStart # <<>>
        /\ Len(tasksToStart) <= ExecRoom
        /\ batch' = tasksToStart
  /\ UNCHANGED <<tasks, graphVars, execs, agents, activeJobs, inflight, done, queueVars, monitorVars, decision, libVars>>

\* one iteration of the batch loop after executeTask returned
ExecuteBatchStep ==
  /\ batch # <<>>
  /\ batch' = Tail(batch)
  /\ \E e \in FreeExecIds :
       /\ \A f \in FreeExecIds : e <= f
       /\ StartExecution(Head(batch), e)
  /\ UNCHANGED <<graphVars, inflight, done, queueVars, monitorVars, decision, libVars>>

\* one iteration of the batch loop when executeTask threw (logged, skipped)
ExecuteBatchThrow ==
  /\ batch # <<>>
  /\ batch' = Tail(batch)
  /\ UNCHANGED <<tasks, graphVars, execs, agents, activeJobs, inflight, done, queueVars, monitorVars, decision, libVars>>

\* TaskScheduler.completeTask (scheduler/index.ts): the status it writes
CompleteTaskStatus(cur) == "completed"

\* monitorExecution after executor.waitForCompletion returned st; cost is
\* the result's cost (75 for sonnet, 150 for opus).  The Azure provider
\* keeps a timed-out job in activeJobs, the others drop it.
MonitorExecution(e, st, cost, dropOnTimeout) ==
  /\ execs[e].state = "waiting"
  /\ LET t == execs[e].taskId IN
       IF st = "completed"
       THEN /\ tasks' = [tasks EXCEPT ![t].status = CompleteTaskStatus(@)]
            /\ execs' = [execs EXCEPT ![e].state = "completed", ![e].costCents = cost]
            /\ done' = [done EXCEPT ![t] = @ \cup {"status", "scoring"}]
       ELSE /\ tasks' = [tasks EXCEPT ![t].status = "failed"]
            /\ execs' = [execs EXCEPT ![e].state = "failed"]
            /\ done' = [done EXCEPT ![t] = @ \cup {"status"}]
  /\ activeJobs' = IF st = "timeout" /\ ~dropOnTimeout THEN activeJobs
                   ELSE activeJobs \ {e}
  /\ UNCHANGED <<graphVars, agents, inflight, batch, queueVars, monitorVars, decision, libVars>>

NextLocal ==
  \/ \E deps \in SUBSET TaskIds, prio \in Priorities : SubmitTaskLocal(deps, prio)
  \/ \E t \in TaskIds : CancelTaskLocal(t)
  \/ \E t \in TaskIds : ExecuteTaskBegin(t)
  \/ \E t \in TaskIds : ExecuteTaskReturn(t)
  \/ \E t \in TaskIds : ExecuteTaskThrow(t)
  \/ ExecuteBatchBegin
  \/ ExecuteBatchStep
  \/ ExecuteBatchThrow
  \/ \E e \in ExecIds, st \in ProviderStatuses, cost \in Costs, drop \in BOOLEAN :
       MonitorExecution(e, st, cost, drop)

SpecLocal == Init /\ [][NextLocal]_vars

\* ------------------------------------------ queue-driven orchestrator (index.ts)
NumWorkers == Cardinality({t \in TaskIds : workers[t] # "none"})

\* POST /api/tasks (index.ts) with one task: refused while the budget is
\* paused, otherwise stored and sent to the queue of its priority
SubmitTaskQueue(prio) ==
  /\ IF budget.isPaused
     THEN /\ response' = [code |-> 503, paused |-> TRUE, stored |-> FALSE]
          /\ UNCHANGED <<tasks, messages>>
     ELSE \E t \in TaskIds :
            /\ tasks[t].status = "absent"
            /\ \A u \in TaskIds : u < t => tasks[u].status # "absent"
            /\ tasks' = [tasks EXCEPT ![t] =
                           [status |-> "pending", assignedAgent |-> NoId, priority |-> prio]]
            /\ messages' = [messages EXCEPT ![t] = "queued"]
            /\ response' = [code |-> 200, paused |-> FALSE, stored |-> TRUE]
  /\ UNCHANGED <<graphVars, execVars, done, workers, results, budget, monitorVars, decision, libVars>>

\* the receiver of a queue hands over its oldest message, one at a time
Deliverable(t) ==
  /\ messages[t] = "queued"
  /\ \A u \in TaskIds :
       (u # t /\ tasks[u].priority = tasks[t].priority) =>
          /\ messages[u] # "processing"
          /\ (messages[u] = "queued" => t < u)

\* processMessage up to spawnAgent's await of the job start: the stored
\* task takes the message body's fields (status pending); spawnAgent returns
\* at once when the agents map is full and the message is completed
ProcessTaskBegin(t) ==
  /\ Deliverable(t)
  /\ IF NumWorkers >= MaxParallelAgents
     THEN /\ tasks' = [tasks EXCEPT ![t].status = "pending"]
          /\ messages' = [messages EXCEPT ![t] = "consumed"]
          /\ UNCHANGED workers
     ELSE /\ tasks' = [tasks EXCEPT ![t].status = "assigned",
                                    ![t].assignedAgent = AgentOf(t)]
          /\ workers' = [workers EXCEPT ![t] = "initializing"]
          /\ messages' = [messages EXCEPT ![t] = "processing"]
  /\ UNCHANGED <<graphVars, execVars, done, results, budget, response, monitorVars, decision, libVars>>

\* spawnAgent after the job start returned (ok) or threw
SpawnAgentReturn(t, ok) ==
  /\ messages[t] = "processing"
  /\ workers' = [workers EXCEPT ![t] = IF ok THEN "running" ELSE "failed"]
  /\ tasks' = [tasks EXCEPT ![t].status = IF ok THEN "running" ELSE "failed"]
  /\ messages' = [messages EXCEPT ![t] = "consumed"]
  /\ UNCHANGED <<graphVars, execVars, done, results, budget, response, monitorVars, decision, libVars>>

\* the worker of task t pushes its result to the results queue
WorkerResult(t, st, c) ==
  /\ workers[t] \in {"initializing", "running"}
  /\ results[t].state = "none"
  /\ results' = [results EXCEPT ![t] = [state |-> "queued", status |-> st, costCents |-> c]]
  /\ UNCHANGED <<tasks, graphVars, execVars, done, messages, workers, budget, response,
               monitorVars, decision, libVars>>

\* the budget part of processResults
DebitBudget(b, c) ==
  LET daily == b.dailyUsedCents + c
  IN [dailyUsedCents |-> daily,
      weeklyUsedCents |-> b.weeklyUsedCents + c,
      isPaused |-> (b.isPaused \/ daily >= DailyLimitCents)]

\* processResults' processMessage: no await before the broadcast
ProcessResults(t) ==
  /\ results[t].state = "queued"
  /\ results' = [results EXCEPT ![t] = [NoResult EXCEPT !.state = "processed"]]
  /\ tasks' = [tasks EXCEPT ![t].status =
                 IF results[t].status = "success" THEN "completed" ELSE "failed"]
  /\ workers' = [workers EXCEPT ![t] = IF @ = "none" THEN @ ELSE "completed"]
  /\ budget' = DebitBudget(budget, results[t].costCents)
  /\ done' = [done EXCEPT ![t] = @ \cup {"status", "budget", "broadcast"}]
  /\ UNCHANGED <<graphVars, execVars, messages, response, monitorVars, decision, libVars>>

\* POST /api/tasks/:id/cancel (index.ts)
CancelTaskQueue(t) ==
  /\ tasks[t].status # "absent"
  /\ tasks' = [tasks EXCEPT ![t].status = "cancelled"]
  /\ UNCHANGED <<graphVars, execVars, done, queueVars, monitorVars, decision, libVars>>

NextQueue ==
  \/ \E prio \in Priorities : SubmitTaskQueue(prio)
  \/ \E t \in TaskIds : ProcessTaskBegin(t)
  \/ \E t \in TaskIds, ok \in BOOLEAN : SpawnAgentReturn(t, ok)
  \/ \E t \in TaskIds, st \in ResultStatuses, c \in Costs : WorkerResult(t, st, c)
  \/ \E t \in TaskIds : ProcessResults(t)
  \/ \E t \in TaskIds : CancelTaskQueue(t)

SpecQueue == Init /\ [][NextQueue]_vars

\* MemoryStore.resetDailyBudget / RedisStore.resetDailyBudget: the daily
\* counter is set to 0; the stored paused flag is not written
ResetDailyBudget ==
  /\ budget' = [budget EXCEPT !.dailyUsedCents = 0]
  /\ UNCHANGED <<tasks, graphVars, execVars, done, messages, workers, results, response,
                 monitorVars, decision, libVars>>

\* the queue-driven orchestrator over days: the daily counter is reset
NextBudget ==
  \/ SubmitTaskQueue("normal")
  \/ \E t \in TaskIds : ProcessTaskBegin(t)
  \/ \E t \in TaskIds : SpawnAgentReturn(t, TRUE)
  \/ \E t \in TaskIds, c \in Costs : WorkerResult(t, "success", c)
  \/ \E t \in TaskIds : ProcessResults(t)
  \/ ResetDailyBudget

SpecBudget == Init /\ [][NextBudget]_vars

\* ------------------------------ conflict monitor (monitoring/conflictMonitor.ts)
RECURSIVE RegisterFiles(_, _, _, _)
\* the loop of registerFileActivity over files: for each path, an event if
\* another agent holds it, then the lock is set to the caller.  Yields the
\* lock table and the events after the files from index i on.
RegisterFiles(locks, events, agentId, files) ==
  IF files = <<>> THEN [locks |-> locks, events |-> events]
  ELSE LET file == Head(files)
           existingLock == locks[file]
           ev == IF existingLock # NoId /\ existingLock # agentId
                 THEN Append(events, [file |-> file, agents |-> <<existingLock, agentId>>])
                 ELSE events
       IN RegisterFiles([locks EXCEPT ![file] = agentId], ev, agentId, Tail(files))

FileSet(files) == {files[i] : i \in 1..Len(files)}

\* ConflictMonitor.registerFileActivity(agentId, taskId, files, branch)
RegisterFileActivity(agentId, files) ==
  /\ LET r == RegisterFiles(fileLocks, <<>>, agentId, files)
     IN /\ fileLocks' = r.locks
        /\ conflicts' = r.events
  /\ agentFiles' = [agentFiles EXCEPT ![agentId] = @ \cup FileSet(files)]

\* ConflictMonitor.releaseAgentLocks(agentId)
ReleaseAgentLocks(agentId) ==
  /\ fileLocks' = [f \in Files |->
                     IF f \in agentFiles[agentId] /\ fileLocks[f] = agentId
                     THEN NoId ELSE fileLocks[f]]
  /\ agentFiles' = [agentFiles EXCEPT ![agentId] = {}]
  /\ UNCHANGED conflicts

\* the monitor alone, driven by its callers
MonitorRegister(a, files) ==
  /\ RegisterFileActivity(a, files)
  /\ UNCHANGED <<tasks, graphVars, execVars, done, queueVars, decision, libVars>>

MonitorRelease(a) ==
  /\ ReleaseAgentLocks(a)
  /\ UNCHANGED <<tasks, graphVars, execVars, done, queueVars, decision, libVars>>

NextMonitor ==
  \/ \E a \in AgentIds, files \in FileLists : MonitorRegister(a, files)
  \/ \E a \in AgentIds : MonitorRelease(a)

SpecMonitor == Init /\ [][NextMonitor]_vars

\* the status of the agent recorded under id a in the local server
AgentStatus(a) == IF agents[a] = NoId THEN "none"
                  ELSE IF execs[agents[a]].state = "waiting" THEN "running"
                  ELSE execs[agents[a]].state

\* an agent started by the local server reports the files it works on
AgentRegisters(a, files) ==
  /\ AgentStatus(a) = "running"
  /\ MonitorRegister(a, files)

\* the local server together with the conflict monitor it constructs
NextLocalMonitor ==
  \/ \E deps \in SUBSET TaskIds : SubmitTaskLocal(deps, "normal")
  \/ \E t \in TaskIds : ExecuteTaskBegin(t)
  \/ \E t \in TaskIds : ExecuteTaskReturn(t)
  \/ \E e \in ExecIds, st \in ProviderStatuses : MonitorExecution(e, st, SonnetCostCents, TRUE)
  \/ \E a \in AgentIds, files \in FileLists : AgentRegisters(a, files)
  \/ \E a \in AgentIds : MonitorRelease(a)

SpecLocalMonitor == Init /\ [][NextLocalMonitor]_vars

\* --------------------------------- smart scheduler (scheduler/taskScheduler.ts)
PriorityWeight(p) == IF p = "high" THEN 3 ELSE IF p = "normal" THEN 2 ELSE 1

\* TaskScheduler.prioritizeTasks: priority weight descending, then older
\* first (ids are created in ascending time order)
PrioritizeTasks(S) ==
  LET all == IdSeq(S)
      pick(w) == SelectSeq(all, LAMBDA t : PriorityWeight(tasks[t].priority) = w)
  IN pick(3) \o pick(2) \o pick(1)

\* TaskScheduler.getAgentTaskCount
GetAgentTaskCount(agentId) == 0

\* TaskScheduler.findBestAgent: the first agent of the pool whose adjusted
\* score is the highest (a later agent must score strictly more to win)
FindBestAgent(pool, score) ==
  IF pool = <<>> THEN NoId
  ELSE LET i == CHOOSE k \in 1..Len(pool) :
                  /\ \A j \in 1..Len(pool) : score[pool[j]] <= score[pool[k]]
                  /\ \A j \in 1..(k - 1) : score[pool[j]] < score[pool[k]]
       IN pool[i]

RemoveAt(seq, a) == SelectSeq(seq, LAMBDA x : x # a)

RECURSIVE AssignLoop(_, _, _, _)
\* the assignment pass of schedule(): d is the decision so far
AssignLoop(todo, pool, score, d) ==
  IF todo = <<>> THEN d
  ELSE LET t == Head(todo) IN
       IF pool = <<>>
       THEN AssignLoop(Tail(todo), pool, score,
                       [d EXCEPT !.deferred = Append(@, t)])
       ELSE LET a == FindBestAgent(pool, score)
                pool2 == IF GetAgentTaskCount(a) >= MaxConcurrentPerAgent
                         THEN RemoveAt(pool, a) ELSE pool
            IN AssignLoop(Tail(todo), pool2, score,
                          [d EXCEPT !.assignments = Append(@, [taskId |-> t, agentId |-> a])])

\* the blocked list of schedule(): pending tasks outside the ready set with
\* a stored dependency that is not completed
BlockedList(ready) ==
  {[taskId |-> t,
    blockedBy |-> {d \in dependencies[t] :
                     tasks[d].status # "absent" /\ tasks[d].status # "completed"}] :
     t \in {u \in TaskIds : /\ tasks[u].status = "pending"
                            /\ u \notin ready
                            /\ \E d \in dependencies[u] :
                                 tasks[d].status # "absent" /\ tasks[d].status # "completed"}}

\* TaskScheduler.schedule(availableAgents): avail lists the agents, idle is
\* the set of those with status idle, score their adjusted scores
Schedule(avail, idle, score) ==
  /\ LET ready == GetReadyTasks
         pool == SelectSeq(avail, LAMBDA a :
                   a \in idle \/ GetAgentTaskCount(a) < MaxConcurrentPerAgent)
     IN decision' =
          IF ready = {} THEN EmptyDecision
          ELSE [AssignLoop(PrioritizeTasks(ready), pool, score, EmptyDecision)
                  EXCEPT !.blocked = BlockedList(ready)]
  /\ UNCHANGED <<tasks, graphVars, execVars, done, queueVars, monitorVars, libVars>>

\* TaskScheduler.completeTask called for a stored task
CompleteTaskCall(t) ==
  /\ tasks[t].status \notin {"absent", "completed"}
  /\ tasks' = [tasks EXCEPT ![t].status = CompleteTaskStatus(@)]
  /\ UNCHANGED <<graphVars, localVars>>

\* the lists of distinct agents a caller can pass
AgentLists == {s \in UNION {[1..n -> SchedAgents] : n \in 0..MaxAgents} :
                 \A i, j \in 1..Len(s) : i # j => s[i] # s[j]}

NextSched ==
  \/ \E deps \in SUBSET TaskIds, prio \in Priorities : SubmitTaskLocal(deps, prio)
  \/ \E t \in TaskIds : CompleteTaskCall(t)
  \/ \E avail \in AgentLists, idle \in SUBSET SchedAgents,
        score \in [SchedAgents -> 0..MaxScore] : Schedule(avail, idle, score)

SpecSched == Init /\ [][NextSched]_vars

\* the scheduler on a store whose tasks the server also cancels
NextDecide ==
  \/ \E deps \in SUBSET TaskIds : SubmitTaskLocal(deps, "normal")
  \/ \E t \in TaskIds : CompleteTaskCall(t)
  \/ \E t \in TaskIds : CancelTaskLocal(t)
  \/ \E avail \in AgentLists, idle \in SUBSET SchedAgents,
        score \in [SchedAgents -> 0..MaxScore] : Schedule(avail, idle, score)

SpecDecide == Init /\ [][NextDecide]_vars

\* ------------------------------------------- ordering of the ready tasks
Backends == {"memory", "redis"}
Reverse(s) == [i \in 1..Len(s) |-> s[Len(s) + 1 - i]]

\* store.listTasks restricted to the ids of S: MemoryStore lists the values
\* of its map (insertion order, oldest first); RedisStore lists the index by
\* zrevrange (score = time of the last setTask, newest first).  A pending
\* task was last set when it was submitted.
ListTasks(backend, S) == IF backend = "memory" THEN IdSeq(S) ELSE Reverse(IdSeq(S))

\* TaskScheduler.getQueueableTasks (scheduler/index.ts) over a backend
GetQueueableTasksOn(backend) ==
  LET ready == ListTasks(backend, GetReadyTasks)
      pick(p) == SelectSeq(ready, LAMBDA t : tasks[t].priority = p)
  IN pick("high") \o pick("normal") \o pick("low")

\* a caller asks scheduler/index.ts for the queueable tasks
GetQueueableTasksCall(backend) ==
  /\ handed' = [path |-> "getQueueableTasks", backend |-> backend,
                order |-> GetQueueableTasksOn(backend)]
  /\ UNCHANGED <<tasks, graphVars, execVars, done, queueVars, monitorVars, decision, wait, topoVars, utilVars>>

\* schedule() (taskScheduler.ts) up to its prioritised list: the ready ids
\* are fetched one by one and then sorted by prioritizeTasks
PrioritizeCall(backend) ==
  /\ handed' = [path |-> "schedule", backend |-> backend,
                order |-> PrioritizeTasks(GetReadyTasks)]
  /\ UNCHANGED <<tasks, graphVars, execVars, done, queueVars, monitorVars, decision, wait, topoVars, utilVars>>

NextOrder ==
  \/ \E deps \in SUBSET TaskIds, prio \in Priorities : SubmitTaskLocal(deps, prio)
  \/ \E t \in TaskIds : CompleteTaskCall(t)
  \/ \E b \in Backends : GetQueueableTasksCall(b)
  \/ \E b \in Backends : PrioritizeCall(b)

SpecOrder == Init /\ [][NextOrder]_vars

\* a caller asks the graph for the ready tasks (in-memory store: the
\* pending tasks in listing order, each kept when areDependenciesMet)
GetReadyTasksCall ==
  /\ handed' = [path |-> "getReadyTasks", backend |-> "memory",
                order |-> SelectSeq(ListTasks("memory", StoredIds),
                                    LAMBDA t : t \in GetReadyTasks)]
  /\ UNCHANGED <<tasks, graphVars, execVars, done, queueVars, monitorVars, decision, wait, topoVars, utilVars>>

\* the graph API, completions and the ready query, one call at a time
NextReady ==
  \/ \E c \in Callers, t \in TaskIds, d \in TaskIds : AddDependencyAlone(c, t, d)
  \/ \E c \in Callers : WouldCreateCycleStep(c)
  \/ \E c \in Callers : AddDependencyWrite(c)
  \/ \E c \in Callers, t \in TaskIds, deps \in SUBSET TaskIds : RegisterTaskAlone(c, t, deps)
  \/ \E t \in TaskIds : CompleteTaskCall(t)
  \/ GetReadyTasksCall

SpecReady == Init /\ [][NextReady]_vars

\* ------------------------------------------- waiting for an execution
\* Times are whole seconds since the wait began.  Timers fire on time and
\* a status request takes no time (the most favourable case).
Providers == {"azure", "fly", "mock"}
Timeouts == 0..MaxTimeoutSec
RunTimes == 1..MaxRunSec
\* MockAzureExecutor.executeTask: the simulated run time by task type
MockDurations == {2, 3, 5, 8}

Returned(w, st) == [w EXCEPT !.pc = "returned", !.status = st, !.returnedAt = w.now]

\* monitorExecution calls executor.waitForCompletion(executionId, timeoutMs)
\* for an execution that finishes after finishAt seconds.  Fly's wait
\* endpoint blocks until the machine stops or its timeout passes; the mock
\* sleeps until completeAt and reports completed; Azure enters its loop.
WaitForCompletionCall(e, provider, timeout, finishAt) ==
  /\ execs[e].state = "waiting"
  /\ wait.pc \in {"idle", "returned"}
  /\ wait.pc = "returned" => (wait.exec # e /\ execs[wait.exec].state # "waiting")
  /\ provider = "mock" => finishAt \in MockDurations
  /\ LET w == [pc |-> "polling", exec |-> e, provider |-> provider, timeout |-> timeout,
               finishAt |-> finishAt, now |-> 0, status |-> "none", returnedAt |-> 0]
     IN wait' = IF provider = "azure" THEN w
                ELSE IF provider = "mock"
                     THEN Returned([w EXCEPT !.now = finishAt], "completed")
                ELSE IF finishAt <= timeout
                     THEN Returned([w EXCEPT !.now = finishAt], "completed")
                ELSE Returned([w EXCEPT !.now = timeout], "timeout")
  /\ UNCHANGED <<tasks, graphVars, execVars, done, queueVars, monitorVars, decision, handed, topoVars, utilVars>>

\* one iteration of AzureExecutor.waitForCompletion's loop: the deadline
\* test, a status request, and the sleep of one poll interval
AzurePoll ==
  /\ wait.pc = "polling"
  /\ wait' = IF wait.now < wait.timeout
             THEN IF wait.now >= wait.finishAt
                  THEN Returned(wait, "completed")
                  ELSE [wait EXCEPT !.now = @ + PollIntervalSec]
             ELSE Returned(wait, "timeout")
  /\ UNCHANGED <<tasks, graphVars, execVars, done, queueVars, monitorVars, decision, handed, topoVars, utilVars>>

\* monitorExecution resumes with the status waitForCompletion returned
MonitorAfterWait(cost) ==
  /\ wait.pc = "returned"
  /\ MonitorExecution(wait.exec, wait.status, cost, wait.provider # "azure")

NextWait ==
  \/ SubmitTaskLocal({}, "normal")
  \/ \E t \in TaskIds : ExecuteTaskBegin(t)
  \/ \E t \in TaskIds : ExecuteTaskReturn(t)
  \/ \E e \in ExecIds, p \in Providers, timeout \in Timeouts, finishAt \in RunTimes :
       WaitForCompletionCall(e, p, timeout, finishAt)
  \/ AzurePoll
  \/ \E cost \in Costs : MonitorAfterWait(cost)

SpecWait == Init /\ [][NextWait]_vars

\* the ways a request to the provider's API can fail: no connection, or
\* an HTTP status that is not ok
ApiErrors == {"connection", "404", "408", "429", "500"}

\* FlyExecutor.waitForCompletion when flyApi throws: the catch block maps
\* the error message to timeout (408), completed (404) or failed
FlyWaitThrows(e, timeout, kind) ==
  /\ execs[e].state = "waiting"
  /\ wait.pc \in {"idle", "returned"}
  /\ wait.pc = "returned" => (wait.exec # e /\ execs[wait.exec].state # "waiting")
  /\ wait' = [pc |-> "returned", exec |-> e, provider |-> "fly", timeout |-> timeout,
              finishAt |-> 0, now |-> 0, returnedAt |-> 0,
              status |-> IF kind = "408" THEN "timeout"
                         ELSE IF kind = "404" THEN "completed"
                         ELSE "failed"]
  /\ UNCHANGED <<tasks, graphVars, execVars, done, queueVars, monitorVars, decision, handed, topoVars, utilVars>>

\* AzureExecutor.waitForCompletion when the listing of executions throws
\* inside getExecutionStatus: its catch block answers failed, which ends
\* the loop
AzureStatusThrows(kind) ==
  /\ wait.pc = "polling"
  /\ wait.now < wait.timeout
  /\ wait' = Returned(wait, "failed")
  /\ UNCHANGED <<tasks, graphVars, execVars, done, queueVars, monitorVars, decision, handed, topoVars, utilVars>>

\* waiting for executions over an API that can fail
NextWaitErr ==
  \/ SubmitTaskLocal({}, "normal")
  \/ \E t \in TaskIds : ExecuteTaskBegin(t)
  \/ \E t \in TaskIds : ExecuteTaskReturn(t)
  \/ \E e \in ExecIds, timeout \in Timeouts, finishAt \in RunTimes :
       WaitForCompletionCall(e, "azure", timeout, finishAt)
  \/ AzurePoll
  \/ \E e \in ExecIds, timeout \in Timeouts, kind \in ApiErrors : FlyWaitThrows(e, timeout, kind)
  \/ \E kind \in ApiErrors : AzureStatusThrows(kind)
  \/ MonitorAfterWait(SonnetCostCents)

SpecWaitErr == Init /\ [][NextWaitErr]_vars

\* ------------------------------------ hierarchical topology (sub-tasks)
HierFrame == UNCHANGED <<tasks, graphVars, execVars, done, queueVars, monitorVars,
                         decision, handed, wait, mesh, ws, utilVars>>

\* the id uuidv4() yields: one never used before
FreshHierId(i) == i \notin hier.tracked /\ \A j \in HierIds : j < i => j \in hier.tracked

\* HierarchicalTopology.submitTask up to its first await; the caller
\* supplies the task, so its id is a new one or one submitted before
HierSubmitTask ==
  /\ \E i \in HierIds :
       /\ FreshHierId(i) \/ i \in hier.tracked
       /\ hier' = [hier EXCEPT !.tracked = @ \cup {i},
                               !.taskDepth[i] = 0,
                               !.taskTree[i] = {},
                               !.toStore = @ \cup {i},
                               !.outcome = "submitted"]
  /\ HierFrame

\* a plausible slip: the depth test is off by one
HierCreateSubTaskDeep(parentTaskId) ==
  /\ parentTaskId \in hier.tracked \cup {UnknownParent}
  /\ LET parentDepth == IF parentTaskId \in hier.tracked
                        THEN hier.taskDepth[parentTaskId] ELSE 0
         newDepth == parentDepth + 1
         parentChildren == hier.taskTree[parentTaskId]
     IN IF newDepth > MaxDepth + 1 \/ Cardinality(parentChildren) >= MaxSubTasksPerAgent
        THEN hier' = [hier EXCEPT !.outcome = "rejected"]
        ELSE \E i \in HierIds :
               /\ FreshHierId(i)
               /\ hier' = [hier EXCEPT !.tracked = @ \cup {i},
                                       !.taskDepth[i] = newDepth,
                                       !.taskTree = [@ EXCEPT ![i] = {},
                                                              ![parentTaskId] = parentChildren \cup {i}],
                                       !.toStore = @ \cup {i},
                                       !.outcome = "created"]
  /\ HierFrame

\* HierarchicalTopology.createSubTask up to its first await: both tests,
\* then the task with a new id and the hierarchy entries
HierCreateSubTask(parentTaskId) ==
  /\ parentTaskId \in hier.tracked \cup {UnknownParent}
  /\ LET parentDepth == IF parentTaskId \in hier.tracked
                        THEN hier.taskDepth[parentTaskId] ELSE 0
         newDepth == parentDepth + 1
         parentChildren == hier.taskTree[parentTaskId]
     IN IF newDepth > MaxDepth \/ Cardinality(parentChildren) >= MaxSubTasksPerAgent
        THEN hier' = [hier EXCEPT !.outcome = "rejected"]
        ELSE \E i \in HierIds :
               /\ FreshHierId(i)
               /\ hier' = [hier EXCEPT !.tracked = @ \cup {i},
                                       !.taskDepth[i] = newDepth,
                                       !.taskTree = [@ EXCEPT ![i] = {},
                                                              ![parentTaskId] = parentChildren \cup {i}],
                                       !.toStore = @ \cup {i},
                                       !.outcome = "created"]
  /\ HierFrame

\* submitTask / createSubTask resumed: await store.setTask(task)
HierStoreTask(i) ==
  /\ i \in hier.toStore
  /\ hier' = [hier EXCEPT !.toStore = @ \ {i}, !.toQueue = @ \cup {i}]
  /\ HierFrame

\* submitTask / createSubTask resumed: await queueTask(task)
HierQueueTask(i) ==
  /\ i \in hier.toQueue
  /\ hier' = [hier EXCEPT !.toQueue = @ \ {i}]
  /\ HierFrame

NextHier ==
  \/ HierSubmitTask
  \/ \E p \in ParentIds : HierCreateSubTask(p)
  \/ \E i \in HierIds : HierStoreTask(i)
  \/ \E i \in HierIds : HierQueueTask(i)

SpecHier == Init /\ [][NextHier]_vars

\* ------------------------------------ mesh topology (request / response)
MeshFrame == UNCHANGED <<tasks, graphVars, execVars, done, queueVars, monitorVars,
                         decision, handed, wait, hier, ws, utilVars>>

\* the id uuidv4() yields for a request message
FreshRequestId(r) ==
  /\ mesh.request[r].timer = "none"
  /\ \A q \in RequestIds : q < r => mesh.request[q].timer # "none"

\* MeshTopology.sendRequest: arm the timer, register the pending response,
\* deliver the request message
MeshSendRequest ==
  /\ \E r \in RequestIds :
       /\ FreshRequestId(r)
       /\ mesh' = [mesh EXCEPT !.request[r].timer = "armed",
                               !.pendingResponses = @ \cup {r},
                               !.messageQueue = Append(@, <<"request", r>>)]
  /\ MeshFrame

\* a plausible slip: the timer is left armed when the response arrives
MeshRespondToRequestKeepsTimer(originalMessageId) ==
  /\ mesh.request[originalMessageId].timer # "none"
  /\ IF originalMessageId \in mesh.pendingResponses
     THEN mesh' = [mesh EXCEPT !.pendingResponses = @ \ {originalMessageId},
                               !.request[originalMessageId].resolveCalls = @ + 1]
     ELSE /\ Len(mesh.messageQueue) < MaxMessages
          /\ mesh' = [mesh EXCEPT !.messageQueue = Append(@, <<"response", originalMessageId>>)]
  /\ MeshFrame

\* MeshTopology.respondToRequest for the id of a request that was sent
MeshRespondToRequest(originalMessageId) ==
  /\ mesh.request[originalMessageId].timer # "none"
  /\ IF originalMessageId \in mesh.pendingResponses
     THEN mesh' = [mesh EXCEPT !.request[originalMessageId].timer = "cleared",
                               !.pendingResponses = @ \ {originalMessageId},
                               !.request[originalMessageId].resolveCalls = @ + 1]
     ELSE /\ Len(mesh.messageQueue) < MaxMessages
          /\ mesh' = [mesh EXCEPT !.messageQueue = Append(@, <<"response", originalMessageId>>)]
  /\ MeshFrame

\* the setTimeout callback of sendRequest, run once peerTimeoutMs has passed
MeshTimeoutFires(r) ==
  /\ mesh.request[r].timer = "armed"
  /\ mesh.request[r].age = PeerTimeoutTicks
  /\ mesh' = [mesh EXCEPT !.request[r].timer = "fired",
                          !.pendingResponses = @ \ {r},
                          !.request[r].rejectCalls = @ + 1]
  /\ MeshFrame

\* time passes for every armed timer; a due timer runs before more time passes
MeshTick ==
  /\ \E r \in RequestIds : mesh.request[r].timer = "armed"
  /\ \A r \in RequestIds :
       mesh.request[r].timer = "armed" => mesh.request[r].age < PeerTimeoutTicks
  /\ mesh' = [mesh EXCEPT !.request =
                [r \in RequestIds |->
                   IF @[r].timer = "armed" THEN [@[r] EXCEPT !.age = @ + 1] ELSE @[r]]]
  /\ MeshFrame

NextMesh ==
  \/ MeshSendRequest
  \/ \E r \in RequestIds : MeshRespondToRequest(r)
  \/ \E r \in RequestIds : MeshTimeoutFires(r)
  \/ MeshTick

SpecMesh == Init /\ [][NextMesh]_vars

\* the event loop runs due timers and time does not stop
SpecMeshFair ==
  /\ SpecMesh
  /\ WF_vars(MeshTick)
  /\ \A r \in RequestIds : WF_vars(MeshTimeoutFires(r))

\* MeshTopology.sendMessage with a direct message: the message gets a new
\* id (the count of messages sent so far) and is delivered to the agent's
\* queue
MeshSendMessage ==
  /\ mesh.sent < MaxMessages
  /\ mesh' = [mesh EXCEPT !.sent = @ + 1,
                          !.messageQueue = Append(@, <<"direct", mesh.sent + 1>>)]
  /\ MeshFrame

\* MeshTopology.getMessages(agentId): the queue is handed to the caller and
\* replaced by an empty one; got collects what the callers were handed
MeshGetMessages ==
  /\ mesh.messageQueue # <<>>
  /\ mesh' = [mesh EXCEPT !.got = @ \o mesh.messageQueue,
                          !.messageQueue = <<>>]
  /\ MeshFrame

\* MeshTopology.onTaskComplete(result) for a result of the agent: the
\* task's status is written if the task is stored and the agent's queue is
\* deleted
MeshOnTaskComplete(t, status) ==
  /\ tasks' = IF tasks[t].status # "absent"
              THEN [tasks EXCEPT ![t].status =
                      IF status = "success" THEN "completed" ELSE "failed"]
              ELSE tasks
  /\ mesh' = [mesh EXCEPT !.messageQueue = <<>>]
  /\ UNCHANGED <<graphVars, execVars, done, queueVars, monitorVars,
                 decision, handed, wait, hier, ws, utilVars>>

\* one agent's queue with its senders, its reader and the completion handler
NextMeshQueue ==
  \/ MeshSendMessage
  \/ MeshSendRequest
  \/ MeshGetMessages
  \/ \E t \in TaskIds, status \in ResultStatuses : MeshOnTaskComplete(t, status)

SpecMeshQueue == Init /\ [][NextMeshQueue]_vars

\* ------------------------------------ websocket notifications
WsFrame == UNCHANGED <<tasks, graphVars, execVars, done, queueVars, monitorVars,
                       decision, handed, wait, hier, mesh, utilVars>>

\* the entry of a client's stream for a system:health message (welcome, history)
SystemHealth == 0

\* a plausible slip: the negation of the type test is forgotten
MatchesFilterTypeInverted(notification, filter) ==
  IF ~filter.hasTypes /\ ~filter.hasTaskIds /\ ~filter.hasAgentIds THEN TRUE
  ELSE IF filter.hasTypes /\ notification.type \in filter.types THEN FALSE
  ELSE IF /\ filter.hasTaskIds
          /\ notification.taskId # NoId
          /\ notification.taskId \notin filter.taskIds THEN FALSE
  ELSE IF /\ filter.hasAgentIds
          /\ notification.agentId # NoId
          /\ notification.agentId \notin filter.agentIds THEN FALSE
  ELSE TRUE

\* WsNotificationManager.matchesFilter
MatchesFilter(notification, filter) ==
  IF ~filter.hasTypes /\ ~filter.hasTaskIds /\ ~filter.hasAgentIds THEN TRUE
  ELSE IF filter.hasTypes /\ notification.type \notin filter.types THEN FALSE
  ELSE IF /\ filter.hasTaskIds
          /\ notification.taskId # NoId
          /\ notification.taskId \notin filter.taskIds THEN FALSE
  ELSE IF /\ filter.hasAgentIds
          /\ notification.agentId # NoId
          /\ notification.agentId \notin filter.agentIds THEN FALSE
  ELSE TRUE

\* a plausible slip: the readyState test is forgotten
SendToClientUnchecked(client, entry) ==
  [client EXCEPT !.received = Append(@, entry)]

\* sendToClient: the message goes out only on a socket that is OPEN
SendToClient(client, entry) ==
  IF client.state = "open"
  THEN [client EXCEPT !.received = Append(@, entry)]
  ELSE client

\* a client that is in the clients map
Connected(c) == ws.clients[c].state \in {"open", "closing"}

\* wss 'connection': a new client with an empty filter gets the welcome
WsConnection ==
  /\ \E c \in ClientIds :
       /\ ws.clients[c].state = "none"
       /\ \A b \in ClientIds : b < c => ws.clients[b].state # "none"
       /\ ws' = [ws EXCEPT !.clients[c] =
                   SendToClient([NoClient EXCEPT !.state = "open"], SystemHealth)]
  /\ WsFrame

\* handleClientMessage 'subscribe': the set components of the message
\* filter replace those of the client's filter
WsSubscribe(c, f) ==
  /\ Connected(c)
  /\ ws' = [ws EXCEPT !.clients[c].filter =
              [hasTypes |-> @.hasTypes \/ f.hasTypes,
               types |-> IF f.hasTypes THEN f.types ELSE @.types,
               hasTaskIds |-> @.hasTaskIds \/ f.hasTaskIds,
               taskIds |-> IF f.hasTaskIds THEN f.taskIds ELSE @.taskIds,
               hasAgentIds |-> @.hasAgentIds \/ f.hasAgentIds,
               agentIds |-> IF f.hasAgentIds THEN f.agentIds ELSE @.agentIds]]
  /\ WsFrame

\* a plausible slip: only the task and agent components are cleared
WsUnsubscribeKeepsTypes(c) ==
  /\ Connected(c)
  /\ ws.clients[c].filter # EmptyFilter
  /\ ws' = [ws EXCEPT !.clients[c].filter =
              [EmptyFilter EXCEPT !.hasTypes = ws.clients[c].filter.hasTypes,
                                  !.types = ws.clients[c].filter.types]]
  /\ WsFrame

\* handleClientMessage 'unsubscribe'
WsUnsubscribe(c) ==
  /\ Connected(c)
  /\ ws.clients[c].filter # EmptyFilter
  /\ ws' = [ws EXCEPT !.clients[c].filter = EmptyFilter]
  /\ WsFrame

\* handleClientMessage 'history': one system:health message
WsHistory(c) ==
  /\ ws.clients[c].state = "open"
  /\ Len(ws.clients[c].received) < MaxReceived
  /\ ws' = [ws EXCEPT !.clients[c] = SendToClient(@, SystemHealth)]
  /\ WsFrame

\* the socket leaves the OPEN state; its 'close' event has not run yet
WsSocketCloses(c) ==
  /\ ws.clients[c].state = "open"
  /\ ws' = [ws EXCEPT !.clients[c].state = "closing"]
  /\ WsFrame

\* ws 'close' / 'error', and pingClients finding the socket not OPEN
WsClientDeleted(c) ==
  /\ ws.clients[c].state = "closing"
  /\ ws' = [ws EXCEPT !.clients[c] = [NoClient EXCEPT !.state = "gone"]]
  /\ WsFrame

\* WsNotificationManager.broadcast: buffer the notification, then send it
\* to every client in the map whose filter matches
WsBroadcast(notification) ==
  /\ Len(ws.log) < MaxBroadcasts
  /\ LET n == Len(ws.log) + 1
         pushed == Append(ws.messageBuffer, n)
     IN ws' = [ws EXCEPT
          !.log = Append(@, notification),
          !.messageBuffer = IF Len(pushed) > BufferSize THEN Tail(pushed) ELSE pushed,
          !.clients = [c \in ClientIds |->
                         IF Connected(c) /\ MatchesFilter(notification, @[c].filter)
                         THEN SendToClient(@[c], n)
                         ELSE @[c]]]
  /\ WsFrame

\* pingClients, run by the 30 s interval: every client in the map whose
\* socket is not OPEN is deleted, the others are pinged
WsPingClients ==
  /\ ws' = [ws EXCEPT !.clients =
              [c \in ClientIds |->
                 IF Connected(c) /\ @[c].state # "open"
                 THEN [NoClient EXCEPT !.state = "gone"]
                 ELSE @[c]]]
  /\ WsFrame

NextWs ==
  \/ WsConnection
  \/ \E c \in ClientIds, f \in FilterMessages : WsSubscribe(c, f)
  \/ \E c \in ClientIds : WsUnsubscribe(c)
  \/ \E c \in ClientIds : WsHistory(c)
  \/ \E c \in ClientIds : WsSocketCloses(c)
  \/ \E c \in ClientIds : WsClientDeleted(c)
  \/ \E n \in Notifications : WsBroadcast(n)
  \/ WsPingClients

SpecWs == Init /\ [][NextWs]_vars

\* ------------------------------------ simulate mode (MockAzureExecutor)
MockFrame == UNCHANGED <<tasks, graphVars, execVars, done, queueVars, monitorVars,
                         decision, handed, wait, topoVars, retry, route, reassignments>>

\* MockAzureExecutor.executeTask(task) followed by the caller's
\* monitorExecution, which enters waitForCompletion at once: the execution
\* id is the clock's reading, the entry under it is set, and the wait holds
\* the entry it read
MockExecuteTask(t) ==
  /\ \A i \in 1..Len(mock.started) : mock.started[i].taskId # t
  /\ LET executionId == mock.now
     IN mock' = [mock EXCEPT
          !.activeJobs[executionId] = t,
          !.started = Append(@, [taskId |-> t, executionId |-> executionId,
                                 waiting |-> TRUE])]
  /\ MockFrame

\* a millisecond passes
MockClockTick ==
  /\ mock.now < MaxMillis
  /\ mock' = [mock EXCEPT !.now = @ + 1]
  /\ MockFrame

\* MockAzureExecutor.waitForCompletion after its sleep: the entry under the
\* execution id is deleted and completed is returned
MockWaitCompletes(i) ==
  /\ i \in 1..Len(mock.started)
  /\ mock.started[i].waiting
  /\ mock.now > mock.started[i].executionId
  /\ mock' = [mock EXCEPT !.activeJobs[mock.started[i].executionId] = NoId,
                          !.started[i].waiting = FALSE]
  /\ MockFrame

NextMock ==
  \/ \E t \in TaskIds : MockExecuteTask(t)
  \/ MockClockTick
  \/ \E i \in 1..MaxTasks : MockWaitCompletes(i)

SpecMock == Init /\ [][NextMock]_vars

\* ------------------------------------ withRetry (default limits and delays)
RetryFrame == UNCHANGED <<tasks, graphVars, execVars, done, queueVars, monitorVars,
                          decision, handed, wait, topoVars, route, reassignments, mock>>

RECURSIVE Pow2(_)
\* Math.pow(2, attempt)
Pow2(n) == IF n = 0 THEN 1 ELSE 2 * Pow2(n - 1)

\* calculateDelay: the values Math.random() can give are taken at the two
\* ends and the middle of the jitter range
CalculateDelay(attempt, baseDelayMs, maxDelayMs, jitterPercent) ==
  LET exponentialDelay == baseDelayMs * Pow2(attempt)
      cappedDelay == Min(exponentialDelay, maxDelayMs)
  IN { (cappedDelay * (100 + j)) \div 100 : j \in {0 - jitterPercent, 0, jitterPercent} }

\* withRetry(fn, config) is called with config {} or with a retryableErrors
\* predicate, given by the set of errors it accepts: the loop starts at
\* attempt 0
WithRetryCall(hasPredicate, retryable) ==
  /\ retry.pc \in {"idle", "returned", "thrown"}
  /\ ~hasPredicate => retryable = {}
  /\ retry' = [NoRetry EXCEPT !.pc = "calling", !.hasPredicate = hasPredicate,
                              !.retryable = retryable]
  /\ RetryFrame

\* await fn() resolves: withRetry returns its value
RetryFnResolves(value) ==
  /\ retry.pc = "calling"
  /\ retry' = [retry EXCEPT !.pc = "returned", !.calls = @ + 1, !.result = value]
  /\ RetryFrame

\* await fn() rejects: rethrow when a predicate is given and refuses the
\* error, or on the last attempt; else compute the delay and sleep
RetryFnRejects(err) ==
  /\ retry.pc = "calling"
  /\ IF (retry.hasPredicate /\ err \notin retry.retryable)
        \/ retry.attempt = DefaultMaxRetries
     THEN retry' = [retry EXCEPT !.pc = "thrown", !.calls = @ + 1,
                                 !.lastError = err, !.thrown = Append(@, err),
                                 !.error = err]
     ELSE \E d \in CalculateDelay(retry.attempt, DefaultBaseDelayMs,
                                  DefaultMaxDelayMs, DefaultJitterPercent) :
            retry' = [retry EXCEPT !.pc = "sleeping", !.calls = @ + 1,
                                   !.lastError = err, !.thrown = Append(@, err),
                                   !.delayMs = d]
  /\ RetryFrame

\* await sleep(delayMs) is over: attempt++ and the loop test
RetrySleepEnds ==
  /\ retry.pc = "sleeping"
  /\ retry' = [retry EXCEPT !.pc = "calling", !.attempt = @ + 1, !.delayMs = 0]
  /\ RetryFrame

NextRetry ==
  \/ \E hasPredicate \in BOOLEAN, retryable \in SUBSET ErrorIds :
       WithRetryCall(hasPredicate, retryable)
  \/ \E v \in ResultIds : RetryFnResolves(v)
  \/ \E e \in ErrorIds : RetryFnRejects(e)
  \/ RetrySleepEnds

SpecRetry == Init /\ [][NextRetry]_vars

\* ------------------------------------ task router
RouteFrame == UNCHANGED <<tasks, graphVars, execVars, done, queueVars, monitorVars,
                          decision, handed, wait, topoVars, retry, reassignments, mock>>

\* the unit of the scaled score: CalculateScore(m) / ScoreOne is the score
ScoreOne == 160 * ExperienceDivisor

\* AgentScoring.calculateScore: 0.5 successRate + 0.25 speed + 0.25 cost,
\* times 1 + min(0.2, completedCount / 500); scaled by ScoreOne
CalculateScore(m) ==
  (8 * m.successTenths + 10 * m.speedQuarters + 10 * m.costQuarters)
    * (ExperienceDivisor + Min(ExperienceCap, m.completedCount))

\* TaskRouter.calculateConfidence, in percent
CalculateConfidence(m, score) ==
  LET base == Min(ScoreOne, score)
      experience == IF m.completedCount < LittleDataCount THEN 6
                    ELSE IF m.completedCount < SomeDataCount THEN 8 ELSE 10
      consistency == IF m.successTenths > 3 /\ m.successTenths < 7 THEN 8 ELSE 10
  IN (base * experience * consistency + (ScoreOne \div 2)) \div ScoreOne

\* scoredAgents.sort((a, b) => b.score - a.score)[0]: the sort is stable,
\* so the first listed agent of maximal score
BestScored(pool, metrics) ==
  LET i == CHOOSE k \in 1..Len(pool) :
             /\ \A j \in 1..Len(pool) :
                  CalculateScore(metrics[pool[j]]) <= CalculateScore(metrics[pool[k]])
             /\ \A j \in 1..(k - 1) :
                  CalculateScore(metrics[pool[j]]) < CalculateScore(metrics[pool[k]])
  IN pool[i]

\* TaskRouter.routeTask, one call: listed is store.listAgents(), idle the
\* agents of status idle, metrics what getPerformance gives for the task's
\* type; the model and reason fields of the decision are left out
RouteTask(listed, idle, metrics) ==
  /\ ~route.called
  /\ LET idleAgents == SelectSeq(listed, LAMBDA a : a \in idle)
     IN route' =
          IF idleAgents = <<>>
          THEN [called |-> TRUE, listed |-> listed, idle |-> idle, metrics |-> metrics,
                agentId |-> NoId, confidencePct |-> NoIdleConfidencePct]
          ELSE LET best == BestScored(idleAgents, metrics)
               IN [called |-> TRUE, listed |-> listed, idle |-> idle, metrics |-> metrics,
                   agentId |-> best,
                   confidencePct |-> CalculateConfidence(metrics[best],
                                                         CalculateScore(metrics[best]))]
  /\ RouteFrame

NextRoute ==
  \E listed \in AgentLists, idle \in SUBSET SchedAgents,
     metrics \in [SchedAgents -> Performances] : RouteTask(listed, idle, metrics)

SpecRoute == Init /\ [][NextRoute]_vars

\* --------------------------------------- completion and newly ready tasks
\* TaskScheduler.isTaskReady evaluated on the task map ts
IsTaskReady(ts, b) ==
  /\ ts[b].status = "pending"
  /\ \A d \in dependencies[b] : ts[d].status = "completed"

\* a plausible slip: the dependents are tested before the status is written
CompleteTaskTestsFirst(t) ==
  /\ LET marked == IF tasks[t].status = "absent" THEN tasks
                   ELSE [tasks EXCEPT ![t].status = "completed"]
         newlyReady == {b \in dependents[t] : IsTaskReady(tasks, b)}
     IN /\ tasks' = marked
        /\ handed' = [path |-> "completeTask", backend |-> "memory",
                      order |-> IdSeq(newlyReady)]
  /\ UNCHANGED <<graphVars, execVars, done, queueVars, monitorVars, decision, wait, topoVars, utilVars>>

\* TaskScheduler.completeTask(t) with what it returns: mark the task
\* completed if it is stored, then test every dependent with isTaskReady
CompleteTask(t) ==
  /\ LET marked == IF tasks[t].status = "absent" THEN tasks
                   ELSE [tasks EXCEPT ![t].status = "completed"]
         newlyReady == {b \in dependents[t] : IsTaskReady(marked, b)}
     IN /\ tasks' = marked
        /\ handed' = [path |-> "completeTask", backend |-> "memory",
                      order |-> IdSeq(newlyReady)]
  /\ UNCHANGED <<graphVars, execVars, done, queueVars, monitorVars, decision, wait, topoVars, utilVars>>

\* the graph API and completions, one call at a time
NextComplete ==
  \/ \E c \in Callers, t \in TaskIds, d \in TaskIds : AddDependencyAlone(c, t, d)
  \/ \E c \in Callers : WouldCreateCycleStep(c)
  \/ \E c \in Callers : AddDependencyWrite(c)
  \/ \E c \in Callers, t \in TaskIds, deps \in SUBSET TaskIds : RegisterTaskAlone(c, t, deps)
  \/ \E t \in TaskIds : CompleteTask(t)

SpecComplete == Init /\ [][NextComplete]_vars

\* ------------------------------------------------- topological order
\* getTopologicalOrder: the stored tasks that list current as a dependency,
\* in the order the tasks were listed
AdjacencyList(current) ==
  SelectSeq(IdSeq(StoredIds), LAMBDA t : current \in dependencies[t])

RECURSIVE RelaxDependents(_, _, _)
\* the inner loop of Kahn's algorithm over the dependents ds of one task
RelaxDependents(ds, inDegree, queue) ==
  IF ds = <<>> THEN [inDegree |-> inDegree, queue |-> queue]
  ELSE LET dependent == Head(ds)
           newDegree == (IF inDegree[dependent] = 0 THEN 1 ELSE inDegree[dependent]) - 1
       IN RelaxDependents(Tail(ds), [inDegree EXCEPT ![dependent] = newDegree],
                          IF newDegree = 0 THEN Append(queue, dependent) ELSE queue)

RECURSIVE Kahn(_, _, _)
\* the while loop of getTopologicalOrder
Kahn(queue, result, inDegree) ==
  IF queue = <<>> THEN result
  ELSE LET current == Head(queue)
           r == RelaxDependents(AdjacencyList(current), inDegree, Tail(queue))
       IN Kahn(r.queue, Append(result, current), r.inDegree)

\* DependencyGraph.getTopologicalOrder: inDegree of a stored task is the
\* number of its dependencies, stored or not
GetTopologicalOrderCall ==
  /\ LET inDegree == [t \in TaskIds |-> Cardinality(dependencies[t])]
         start == IdSeq({t \in StoredIds : inDegree[t] = 0})
         result == Kahn(start, <<>>, inDegree)
     IN handed' = IF Len(result) # Cardinality(StoredIds)
                  THEN [path |-> "getTopologicalOrder threw", backend |-> "memory",
                        order |-> <<>>]
                  ELSE [path |-> "getTopologicalOrder", backend |-> "memory",
                        order |-> result]
  /\ UNCHANGED <<tasks, graphVars, execVars, done, queueVars, monitorVars, decision, wait, topoVars, utilVars>>

\* the graph API used by one caller at a time, with the order query
NextTopo ==
  \/ \E c \in Callers, t \in TaskIds, d \in TaskIds : AddDependencyAlone(c, t, d)
  \/ \E c \in Callers : WouldCreateCycleStep(c)
  \/ \E c \in Callers : AddDependencyWrite(c)
  \/ \E t \in TaskIds, d \in TaskIds : RemoveDependencyAlone(t, d)
  \/ \E c \in Callers, t \in TaskIds, deps \in SUBSET TaskIds : RegisterTaskAlone(c, t, deps)
  \/ GetTopologicalOrderCall

SpecTopo == Init /\ [][NextTopo]_vars

\* ------------------------------------------ assignment of agents to tasks
\* The tasks of index.ts live in its own tasks map (they have a queue
\* message), the tasks of the store are the ones the scheduler library and
\* the local server work on (no message); the two sets are disjoint.
InStore(t) == tasks[t].status # "absent" /\ messages[t] = "none"

\* the caller of schedule() carries out an assignment of its decision: the
\* task is handed to the agent and stored as assigned
DispatchAssignment(t, a) ==
  /\ InStore(t)
  /\ tasks[t].status = "pending"
  /\ tasks' = [tasks EXCEPT ![t].status = "assigned", ![t].assignedAgent = a]
  /\ UNCHANGED <<graphVars, localVars>>

\* a plausible slip: the task goes back to pending but keeps its agent
RebalanceKeepsAgent(unavailableAgentId) ==
  /\ \E t \in TaskIds : InStore(t) /\ tasks[t].status = "assigned"
                        /\ tasks[t].assignedAgent = unavailableAgentId
  /\ tasks' = [t \in TaskIds |->
                 IF InStore(t) /\ tasks[t].status = "assigned"
                    /\ tasks[t].assignedAgent = unavailableAgentId
                 THEN [tasks[t] EXCEPT !.status = "pending"]
                 ELSE tasks[t]]
  /\ UNCHANGED <<graphVars, localVars>>

\* TaskScheduler.rebalance(unavailableAgentId, availableAgents): every stored
\* task assigned to the agent goes back to pending without an agent
Rebalance(unavailableAgentId) ==
  /\ \E t \in TaskIds : InStore(t) /\ tasks[t].status = "assigned"
                        /\ tasks[t].assignedAgent = unavailableAgentId
  /\ tasks' = [t \in TaskIds |->
                 IF InStore(t) /\ tasks[t].status = "assigned"
                    /\ tasks[t].assignedAgent = unavailableAgentId
                 THEN [tasks[t] EXCEPT !.status = "pending", !.assignedAgent = NoId]
                 ELSE tasks[t]]
  /\ UNCHANGED <<graphVars, localVars>>

CancelStored(t) == InStore(t) /\ CancelTaskLocal(t)
CancelQueued(t) == messages[t] # "none" /\ CancelTaskQueue(t)
ExecuteStoredBegin(t) == InStore(t) /\ ExecuteTaskBegin(t)

NextAssign ==
  \/ SubmitTaskQueue("normal")
  \/ SubmitTaskLocal({}, "normal")
  \/ \E t \in TaskIds : ProcessTaskBegin(t)
  \/ \E t \in TaskIds, ok \in BOOLEAN : SpawnAgentReturn(t, ok)
  \/ \E t \in TaskIds, st \in ResultStatuses : WorkerResult(t, st, SonnetCostCents)
  \/ \E t \in TaskIds : ProcessResults(t)
  \/ \E t \in TaskIds : CancelQueued(t)
  \/ \E t \in TaskIds : CancelStored(t)
  \/ \E t \in TaskIds : ExecuteStoredBegin(t)
  \/ \E t \in TaskIds : ExecuteTaskReturn(t)
  \/ \E e \in ExecIds, st \in ProviderStatuses : MonitorExecution(e, st, SonnetCostCents, TRUE)
  \/ \E t \in TaskIds, a \in SchedAgents : DispatchAssignment(t, a)
  \/ \E a \in SchedAgents : Rebalance(a)

SpecAssign == Init /\ [][NextAssign]_vars

RECURSIVE Reassign(_, _, _)
\* the loop of rebalance(): findBestAgent for each affected task in turn
Reassign(affected, availableAgents, score) ==
  IF affected = <<>> THEN <<>>
  ELSE LET a == FindBestAgent(availableAgents, score)
           rest == Reassign(Tail(affected), availableAgents, score)
       IN IF a = NoId THEN rest
          ELSE <<[taskId |-> Head(affected), agentId |-> a]>> \o rest

\* TaskScheduler.rebalance(unavailableAgentId, availableAgents) with what it
\* returns: every stored task assigned to the agent goes back to pending
\* without an agent and is routed over availableAgents
RebalanceCall(unavailableAgentId, availableAgents, score) ==
  /\ LET affected == {t \in TaskIds : /\ InStore(t)
                                      /\ tasks[t].status = "assigned"
                                      /\ tasks[t].assignedAgent = unavailableAgentId}
     IN /\ tasks' = [t \in TaskIds |->
                       IF t \in affected
                       THEN [tasks[t] EXCEPT !.status = "pending", !.assignedAgent = NoId]
                       ELSE tasks[t]]
        /\ reassignments' = Reassign(IdSeq(affected), availableAgents, score)
  /\ UNCHANGED <<graphVars, execVars, done, queueVars, monitorVars, decision, handed,
                 wait, topoVars, retry, route, mock>>

\* the store's tasks being assigned, started, cancelled and rebalanced
NextRebalance ==
  \/ SubmitTaskLocal({}, "normal")
  \/ \E t \in TaskIds, a \in SchedAgents : DispatchAssignment(t, a)
  \/ \E t \in TaskIds : CancelStored(t)
  \/ \E t \in TaskIds : ExecuteStoredBegin(t)
  \/ \E t \in TaskIds : ExecuteTaskReturn(t)
  \/ \E a \in SchedAgents, avail \in AgentLists, score \in [SchedAgents -> 0..MaxScore] :
       RebalanceCall(a, avail, score)

SpecRebalance == Init /\ [][NextRebalance]_vars

\* ------------------------------------------------------------ graph facts
RECURSIVE ReachFrom(_, _)
\* nodes reachable from the set S along forward edges (one or more steps)
ReachFrom(S, seen) ==
  LET nxt == UNION {dependencies[x] : x \in S} \ seen
  IN IF nxt = {} THEN seen ELSE ReachFrom(nxt, seen \cup nxt)

HasCycle == \E t \in TaskIds : t \in ReachFrom({t}, {})

\* DependencyGraph.detectCycles: a depth-first search started from every
\* stored task; TRUE when it returns a cycle, FALSE when it returns null
DetectCycles ==
  \E t \in TaskIds :
    /\ tasks[t].status # "absent"
    /\ \E n \in {t} \cup ReachFrom({t}, {}) : n \in ReachFrom({n}, {})

\* ------------------------------------------------------------------ claims
\* C1: a task leaves pending for assigned or running only if every id in its
\* dependency set is a stored task that is completed at that moment.
C1_StartsOnlyWhenDependenciesMet ==
  [][\A t \in TaskIds :
       (tasks[t].status = "pending" /\ tasks'[t].status \in {"assigned", "running"})
         => \A d \in dependencies[t] : tasks[d].status = "completed"]_vars

\* C2: whenever a task's status becomes completed, every one of its
\* dependencies already has status completed at that moment.
C2_CompletesAfterDependencies ==
  [][\A t \in TaskIds :
       (tasks[t].status # "completed" /\ tasks'[t].status = "completed")
         => \A d \in dependencies[t] : tasks[d].status = "completed"]_vars

\* C3: the dependency graph contains no directed cycle in any reachable
\* state, also when two addDependency calls interleave at their awaits.
C3_NoCycle == ~HasCycle

StatusRank(st) == IF st = "pending" THEN 0
                  ELSE IF st = "assigned" THEN 1
                  ELSE IF st = "running" THEN 2
                  ELSE 3

\* C4: a stored task's status only moves forward along pending, assigned,
\* running, {completed, failed, cancelled}, except assigned back to pending;
\* a completed, failed or cancelled task never changes status again.
C4_StatusMonotone ==
  [][\A t \in TaskIds :
       tasks[t].status # "absent" =>
         \/ tasks'[t].status = tasks[t].status
         \/ StatusRank(tasks'[t].status) > StatusRank(tasks[t].status)
         \/ tasks[t].status = "assigned" /\ tasks'[t].status = "pending"]_vars

\* C5: no state shows some but not all of the five outcomes of handling a
\* task's completion (status, scoring, locks, budget, broadcast).
C5_CompletionAllOrNothing ==
  \A t \in TaskIds : done[t] = {} \/ done[t] = Outcomes

AssignmentsTo(a) ==
  Cardinality({i \in 1..Len(decision.assignments) : decision.assignments[i].agentId = a})

RECURSIVE SumCosts(_)
SumCosts(S) == IF S = {} THEN 0
               ELSE LET e == CHOOSE x \in S : TRUE
                    IN execs[e].costCents + SumCosts(S \ {e})

\* C7: without a reset, the daily and the weekly counter each equal the sum
\* of the costs of all results handled (here: of the provider-polled
\* executions that completed).
C7_BudgetEqualsHandledCosts ==
  /\ budget.dailyUsedCents = SumCosts({e \in ExecIds : execs[e].state = "completed"})
  /\ budget.weeklyUsedCents = SumCosts({e \in ExecIds : execs[e].state = "completed"})

\* C8: once the daily counter is at the daily limit the paused flag is set,
\* and a submission made while it is set is refused with a 4xx status
\* without storing or queueing a task.
C8_PausedRefusesWith4xx ==
  /\ budget.dailyUsedCents >= DailyLimitCents => budget.isPaused
  /\ response.paused => (response.code \in 400..499 /\ ~response.stored)

\* C9: no entry of the lock table names an agent whose status is terminal.
C9_NoLockOfTerminalAgent ==
  \A f \in Files :
    fileLocks[f] # NoId => AgentStatus(fileLocks[f]) \notin {"completed", "failed", "terminated"}

\* C10: registerFileActivity locks to the caller exactly the paths of files
\* not held by a different agent (a path held by a different agent stays
\* with its holder), and returns exactly one event for each path of files
\* held by a different agent.
C10_RegisterLocksOnlyFreePaths ==
  [][\A a \in AgentIds, files \in FileLists :
       MonitorRegister(a, files) =>
         LET held == {f \in FileSet(files) : fileLocks[f] # NoId /\ fileLocks[f] # a}
         IN /\ \A f \in Files :
                 fileLocks'[f] = IF f \in FileSet(files) \ held THEN a ELSE fileLocks[f]
            /\ Len(conflicts') = Cardinality(held)
            /\ \A f \in held : \E i \in 1..Len(conflicts') : conflicts'[i].file = f]_vars


\* C11: the ready tasks are handed out high before normal before low, and
\* within one priority in ascending creation order (ids ascend with
\* createdAt), on every path and backend.
C11_PriorityThenFifo ==
  \A i, j \in 1..Len(handed.order) :
    i < j =>
      LET a == handed.order[i]
          b == handed.order[j]
      IN /\ PriorityWeight(tasks[a].priority) >= PriorityWeight(tasks[b].priority)
         /\ tasks[a].priority = tasks[b].priority => a < b

AssignedOrBeyond == {"assigned", "running", "completed", "failed", "cancelled"}

Rejected(c) ==
  \/ calls[c].pc = "dfs" /\ calls'[c] = IdleCall /\ outcome'[c] = "cycle"
  \/ \E t \in TaskIds : AddDependencyAlone(c, t, t)

\* C13: addDependency(t, d) throws whenever t = d or t is reachable from d
\* along forward edges (it gets to its write only when neither is so), and
\* a rejected call leaves the forward and the reverse adjacency as they
\* were, with detectCycles() still returning null.
C13_RejectsCycleAndLeavesGraph ==
  [][\A c \in Callers :
       /\ \A t \in TaskIds : AddDependencyAlone(c, t, t) => outcome'[c] = "cycle"
       /\ (calls[c].pc = "dfs" /\ calls'[c].pc = "write") =>
            /\ calls[c].taskId # calls[c].dependsOn
            /\ calls[c].taskId \notin ReachFrom({calls[c].dependsOn}, {})
       /\ Rejected(c) =>
            /\ dependencies' = dependencies
            /\ dependents' = dependents
            /\ ~DetectCycles']_vars

\* a call was rejected on a graph that has a path of two edges
C13_Witness ==
  \E c \in Callers, x, y, z \in TaskIds :
    /\ outcome[c] = "cycle" /\ calls[c].pc = "idle"
    /\ x # y /\ y # z /\ x # z
    /\ y \in dependencies[x] /\ z \in dependencies[y]

SeqSet(s) == {s[i] : i \in 1..Len(s)}

C15_TimeoutByDeadlineThenFailed ==
  (wait.pc = "returned" /\ wait.finishAt > wait.timeout) =>
     /\ wait.status = "timeout"
     /\ wait.returnedAt <= wait.timeout
     /\ execs[wait.exec].state # "waiting" =>
          tasks[execs[wait.exec].taskId].status = "failed"

\* C16: the cancel request sets the task's status to cancelled at once, and
\* if the task has been dispatched the provider's cancelExecution is
\* invoked for its execution (every provider's cancelExecution drops the
\* execution from activeJobs).
C16_CancelStopsExecution ==
  [][\A t \in TaskIds :
       CancelTaskLocal(t) =>
         /\ tasks'[t].status = "cancelled"
         /\ \A e \in ExecIds :
              (execs[e].taskId = t /\ e \in activeJobs) => e \notin activeJobs']_vars

HierWithinLimits(h) ==
  /\ \A i \in h.tracked : h.taskDepth[i] <= MaxDepth
  /\ \A p \in ParentIds : Cardinality(h.taskTree[p]) <= MaxSubTasksPerAgent

\* C17: after any sequence of submitTask and createSubTask calls, also
\* interleaved at their awaits, every tracked task has depth at most
\* maxDepth and every parent at most maxSubTasksPerAgent children; a
\* createSubTask that would exceed a limit is rejected (and only then) and
\* creates no task, depth entry or child entry.
C17_SubTaskLimits ==
  [][/\ HierWithinLimits(hier')
     /\ \A p \in ParentIds :
          HierCreateSubTask(p) =>
            LET newDepth == (IF p \in hier.tracked THEN hier.taskDepth[p] ELSE 0) + 1
                exceeds == \/ newDepth > MaxDepth
                           \/ Cardinality(hier.taskTree[p]) + 1 > MaxSubTasksPerAgent
            IN /\ exceeds <=> hier'.outcome = "rejected"
               /\ exceeds => hier' = [hier EXCEPT !.outcome = "rejected"]]_vars

\* a sub-task at the deepest level exists, a parent is full, a call was
\* rejected, and a created task has not been stored yet
C17_Witness ==
  /\ hier.outcome = "rejected"
  /\ \E i \in hier.tracked : hier.taskDepth[i] = MaxDepth
  /\ \E p \in ParentIds : Cardinality(hier.taskTree[p]) = MaxSubTasksPerAgent
  /\ hier.toStore # {}

Settled(r) == mesh.request[r].resolveCalls + mesh.request[r].rejectCalls >= 1

\* C18: every sendRequest promise settles exactly once: resolved if
\* respondToRequest for its id is called before the timer fires, otherwise
\* rejected when peerTimeoutMs has elapsed; never both, never pending for
\* ever, and once settled no pending-response entry remains for its id.
C18_SettlesExactlyOnce ==
  /\ [](\A r \in RequestIds :
          /\ mesh.request[r].resolveCalls + mesh.request[r].rejectCalls <= 1
          /\ mesh.request[r].rejectCalls = 1 => mesh.request[r].age = PeerTimeoutTicks
          /\ Settled(r) => r \notin mesh.pendingResponses
          /\ (mesh.request[r].timer = "armed") <=> (r \in mesh.pendingResponses))
  /\ [][\A r \in RequestIds :
          /\ (MeshRespondToRequest(r) /\ mesh.request[r].timer = "armed")
               => mesh'.request[r].resolveCalls = 1
          /\ MeshTimeoutFires(r) => mesh'.request[r].rejectCalls = 1]_vars
  /\ \A r \in RequestIds : (mesh.request[r].timer = "armed") ~> Settled(r)

\* one request was answered in time, another ran into its timeout, and a
\* late response to the timed-out one went to the message queue
C18_Witness ==
  \E r, q \in RequestIds :
    /\ mesh.request[r].resolveCalls = 1
    /\ mesh.request[q].rejectCalls = 1
    /\ \E i \in 1..Len(mesh.messageQueue) : mesh.messageQueue[i] = <<"response", q>>

\* the filter matches as the interface describes it: every set component
\* contains the notification's value
EveryComponentMatches(n, f) ==
  /\ f.hasTypes => n.type \in f.types
  /\ f.hasTaskIds => n.taskId \in f.taskIds
  /\ f.hasAgentIds => n.agentId \in f.agentIds

\* the broadcast notifications of a client's stream, in the order received
BroadcastsReceived(client) == SelectSeq(client.received, LAMBDA e : e # SystemHealth)

\* C19: two notifications about the same task broadcast in some order reach
\* every connected subscriber whose filter matches both in that order: each
\* broadcast is appended to the stream of every open client whose filter
\* matches it, and a stream only ever lists broadcasts in broadcast order.
C19_PerTaskOrder ==
  [][\A c \in ClientIds :
       /\ LET got == BroadcastsReceived(ws'.clients[c])
          IN \A i, j \in 1..Len(got) : i < j => got[i] < got[j]
       /\ \A n \in Notifications :
            (/\ WsBroadcast(n)
             /\ ws.clients[c].state = "open"
             /\ EveryComponentMatches(n, ws.clients[c].filter))
            => /\ Len(ws'.clients[c].received) = Len(ws.clients[c].received) + 1
               /\ ws'.clients[c].received[Len(ws'.clients[c].received)] = Len(ws'.log)]_vars

\* a subscriber with a task filter has received two notifications about
\* that task, first the earlier one, while another connected client got
\* less
C19_Witness ==
  \E c, b \in ClientIds :
    /\ ws.clients[c].filter.hasTaskIds
    /\ Len(ws.log) = 2
    /\ ws.log[1].taskId = ws.log[2].taskId /\ ws.log[1].taskId \in ws.clients[c].filter.taskIds
    /\ ws.log[1].type # ws.log[2].type
    /\ BroadcastsReceived(ws.clients[c]) = <<1, 2>>
    /\ Connected(b) /\ Len(BroadcastsReceived(ws.clients[b])) < 2

\* C20: a broadcast notification is sent to an open client if and only if
\* every component set in the client's filter matches (type in types,
\* data.taskId in taskIds, data.agentId in agentIds); a notification that
\* carries no data.taskId does not reach a client whose filter sets taskIds.
C20_DeliveredIffEveryComponentMatches ==
  [][\A n \in Notifications : WsBroadcast(n) =>
       \A c \in ClientIds : ws.clients[c].state = "open" =>
         ((ws'.clients[c].received = Append(ws.clients[c].received, Len(ws'.log)))
            <=> EveryComponentMatches(n, ws.clients[c].filter))]_vars

\* C21: with the default configuration withRetry invokes the wrapped
\* function at most 3 times in total and then stops, returning the first
\* successful result or rethrowing the last error.
C21_AtMostThreeCalls ==
  /\ retry.calls <= DefaultMaxRetries
  /\ retry.pc = "returned" => retry.result # NoId /\ retry.calls = Len(retry.thrown) + 1
  /\ retry.pc = "thrown" => retry.error = retry.thrown[Len(retry.thrown)]

\* the idle agents routeTask had to choose from
RouteIdle == {a \in SchedAgents : a \in route.idle /\ \E i \in 1..Len(route.listed) : route.listed[i] = a}

\* agent a is to be preferred to b: higher score, then higher completion
\* count, then earlier last-updated time
PreferredOrEqual(a, b) ==
  LET ma == route.metrics[a]  mb == route.metrics[b]
  IN \/ CalculateScore(ma) > CalculateScore(mb)
     \/ /\ CalculateScore(ma) = CalculateScore(mb)
        /\ \/ ma.completedCount > mb.completedCount
           \/ /\ ma.completedCount = mb.completedCount
              /\ ma.lastUpdated <= mb.lastUpdated

\* C22: routeTask returns agentId null with confidence 0.5 exactly when no
\* agent is idle; otherwise an idle agent of maximal score, among equal
\* scores the one with the higher completion count, then the earliest
\* last-updated time.
C22_RouteBestIdleAgent ==
  route.called =>
    /\ (route.agentId = NoId) <=> (RouteIdle = {})
    /\ route.agentId = NoId => route.confidencePct = NoIdleConfidencePct
    /\ route.agentId # NoId =>
         /\ route.agentId \in RouteIdle
         /\ \A b \in RouteIdle : PreferredOrEqual(route.agentId, b)

\* C23: each task is handed to the provider's executeTask at most once:
\* no two executions are ever started for the same task, also when force
\* starts of the same pending task overlap.
C23_DispatchedAtMostOnce ==
  \A e, f \in ExecIds :
    (e # f /\ execs[e].state # "free" /\ execs[f].state # "free")
      => execs[e].taskId # execs[f].taskId

\* C24: a task whose status is cancelled is never afterwards dispatched or
\* moved to assigned or running: no step takes a cancelled task to one of
\* these statuses or starts an execution for it.
C24_CancelledNeverStarted ==
  [][\A t \in TaskIds : tasks[t].status = "cancelled" =>
       /\ tasks'[t].status \notin {"assigned", "running"}
       /\ \A e \in ExecIds : execs'[e].taskId = t => execs[e].taskId = t]_vars

\* the task ids of the three lists of a scheduling decision
AssignedIds(d) == {d.assignments[i].taskId : i \in 1..Len(d.assignments)}
DeferredIds(d) == {d.deferred[i] : i \in 1..Len(d.deferred)}
BlockedIds(d) == {b.taskId : b \in d.blocked}

\* the dependencies of t that are not completed
UnmetDependencies(t) == {d \in dependencies[t] : tasks[d].status # "completed"}

\* C25: each schedule() decision partitions the pending tasks: a pending
\* task with all dependencies completed is in exactly one of assignments
\* and deferred (once), a pending task whose ready-check fails is in blocked
\* with its unmet dependencies, and no task id is in more than one list.
C25_DecisionPartitionsPending ==
  [][(\E avail \in AgentLists, idle \in SUBSET SchedAgents,
         score \in [SchedAgents -> 0..MaxScore] : Schedule(avail, idle, score))
     => LET d == decision'
            pending == {t \in TaskIds : tasks[t].status = "pending"}
        IN /\ \A t \in pending :
                IF UnmetDependencies(t) = {}
                THEN /\ t \in AssignedIds(d) \cup DeferredIds(d)
                     /\ t \notin AssignedIds(d) \cap DeferredIds(d)
                ELSE [taskId |-> t, blockedBy |-> UnmetDependencies(t)] \in d.blocked
           /\ AssignedIds(d) \cap DeferredIds(d) = {}
           /\ AssignedIds(d) \cap BlockedIds(d) = {}
           /\ DeferredIds(d) \cap BlockedIds(d) = {}
           /\ Cardinality(AssignedIds(d)) = Len(d.assignments)
           /\ Cardinality(DeferredIds(d)) = Len(d.deferred)
           /\ Cardinality(BlockedIds(d)) = Cardinality(d.blocked)
           /\ AssignedIds(d) \cup DeferredIds(d) \cup BlockedIds(d) \subseteq pending]_vars

\* C26: completeTask(id) returns exactly the direct dependents of id that
\* are pending and whose dependencies are all completed once id is marked
\* completed; a dependent with another incomplete dependency is not
\* returned, and a dependent is returned by the call that completes the
\* last of its dependencies.
C26_CompleteTaskReturnsNewlyReady ==
  [][\A t \in TaskIds : CompleteTask(t) =>
       /\ SeqSet(handed'.order) =
            {b \in TaskIds : /\ t \in dependencies[b]
                             /\ tasks'[b].status = "pending"
                             /\ \A d \in dependencies[b] : tasks'[d].status = "completed"}
       /\ Len(handed'.order) = Cardinality(SeqSet(handed'.order))
       /\ \A b \in TaskIds :
            (/\ tasks[b].status = "pending"
             /\ t \in dependencies[b]
             /\ tasks[t].status \notin {"absent", "completed"}
             /\ \A d \in dependencies[b] \ {t} : tasks[d].status = "completed")
            => b \in SeqSet(handed'.order)]_vars

\* a completion returned one dependent and left out another dependent of
\* the same task that still waits for a second dependency
C26_Witness ==
  /\ handed.path = "completeTask"
  /\ \E t, b, c \in TaskIds :
       /\ handed.order = <<b>>
       /\ tasks[t].status = "completed"
       /\ t \in dependencies[b] /\ t \in dependencies[c]
       /\ c # b /\ tasks[c].status = "pending"
       /\ \E d \in dependencies[c] : tasks[d].status = "pending"

\* C27: after rebalance(a, agents) no stored task is assigned to a: each
\* task that was is pending again without an agent, every other task is
\* unchanged, and no returned reassignment names the unavailable agent a.
C27_RebalanceClearsAgent ==
  [][\A a \in SchedAgents, avail \in AgentLists, score \in [SchedAgents -> 0..MaxScore] :
       RebalanceCall(a, avail, score) =>
         /\ \A t \in TaskIds :
              IF InStore(t) /\ tasks[t].status = "assigned" /\ tasks[t].assignedAgent = a
              THEN tasks'[t].status = "pending" /\ tasks'[t].assignedAgent = NoId
              ELSE tasks'[t] = tasks[t]
         /\ \A i \in 1..Len(reassignments') : reassignments'[i].agentId # a]_vars

\* C28: if registerTask(t) fails because one of t's dependencies would
\* create a cycle, the store is as before the call: t is not stored and
\* none of t's edges is persisted.  Stated for the call that fails on the
\* first dependency it adds.
C28_FailedRegisterLeavesStore ==
  [][\A c \in Callers, t \in TaskIds, deps \in SUBSET TaskIds :
       (RegisterTaskAlone(c, t, deps) /\ outcome'[c] = "cycle")
         => /\ tasks' = tasks
            /\ dependencies' = dependencies
            /\ dependents' = dependents]_vars

\* C29: getTopologicalOrder() returns every stored task exactly once, each
\* after all of its dependencies, and fails with the cycle error if and
\* only if the graph contains a directed cycle; a dependency on an id that
\* is not stored is not a cycle.
C29_TopologicalOrderOrCycle ==
  [][GetTopologicalOrderCall =>
       /\ (handed'.path = "getTopologicalOrder threw") <=> HasCycle
       /\ handed'.path = "getTopologicalOrder" =>
            LET order == handed'.order
            IN /\ SeqSet(order) = StoredIds
               /\ Len(order) = Cardinality(StoredIds)
               /\ \A i, j \in 1..Len(order) :
                    order[j] \in dependencies[order[i]] => j < i]_vars

\* C30: the conflict monitor's two mappings stay mutually consistent after
\* any sequence of registerFileActivity and releaseAgentLocks calls: a path
\* is in agent a's path set if and only if the lock on that path is held by a.
C30_MappingsConsistent ==
  \A a \in AgentIds, f \in Files : f \in agentFiles[a] <=> fileLocks[f] = a

\* C31: in the queue-driven orchestrator a task picked up while
\* maxParallelAgents agents are tracked waits in the queue: its message is
\* not consumed, so that it can be spawned later; a consumed message of a
\* task that was not cancelled always belongs to a task that got a worker.
C31_FullCapacityKeepsMessage ==
  [][\A t \in TaskIds :
       /\ (ProcessTaskBegin(t) /\ NumWorkers >= MaxParallelAgents) =>
             messages'[t] = "queued"
       /\ (messages'[t] = "consumed" /\ tasks'[t].status # "cancelled") =>
             workers'[t] # "none"]_vars

\* C32: at no time are more than maxParallelAgents executions active:
\* neither force-start handler, nor any concurrent combination of them,
\* starts an execution when the active-job count has reached the limit.
C32_ActiveWithinLimit ==
  Cardinality(activeJobs) <= MaxParallelAgents

\* C33: for every provider, once waitForCompletion has returned for an
\* execution (completed, failed or timeout) and its caller has recorded the
\* outcome, the execution is no longer among the provider's active jobs;
\* with no execution outstanding the count is 0.
C33_ReturnedNotActive ==
  /\ \A e \in ExecIds : execs[e].state \in {"completed", "failed"} => e \notin activeJobs
  /\ (\A e \in ExecIds : execs[e].state # "waiting") => Cardinality(activeJobs) = 0

\* C34: during waitForCompletion a transient provider-API error (connection
\* failure, HTTP 429, 5xx) is retried rather than reported: it does not by
\* itself make waitForCompletion return failed; an absent resource (404)
\* yields completed.
C34_TransientErrorNotFailed ==
  [][/\ \A e \in ExecIds, timeout \in Timeouts, kind \in ApiErrors :
          FlyWaitThrows(e, timeout, kind) =>
             /\ kind \in {"connection", "429", "500"} => wait'.status # "failed"
             /\ kind = "404" => wait'.status = "completed"
     /\ \A kind \in {"connection", "429", "500"} :
          AzureStatusThrows(kind) => wait'.status # "failed"]_vars

\* C35: withRetry calls the wrapped function again only after an error that
\* the caller-supplied predicate classifies as retryable; any other error,
\* including every error when no predicate is supplied, is rethrown at once
\* with no further call.
C35_RetriesOnlyClassifiedErrors ==
  [][\A err \in ErrorIds :
       (RetryFnRejects(err) /\ ~(retry.hasPredicate /\ err \in retry.retryable)) =>
          /\ retry'.pc = "thrown"
          /\ retry'.error = err]_vars

\* C36: every message delivered to an agent's mesh queue is returned by
\* exactly one later getMessages call, in the order of delivery: what the
\* callers got followed by what is still queued is the sequence of the
\* direct messages delivered, with none lost and none twice, also when
\* deliveries, getMessages calls and onTaskComplete interleave.
C36_QueueFifoNoLoss ==
  SelectSeq(mesh.got \o mesh.messageQueue, LAMBDA m : m[1] = "direct")
    = [i \in 1..mesh.sent |-> <<"direct", i>>]

\* C37: broadcast never sends to a client whose socket is not open; the
\* notification is still buffered and still delivered to every open
\* matching client; and a ping tick removes every client whose socket is
\* not open from the client set.
C37_BroadcastSkipsClosedSockets ==
  [][/\ \A n \in Notifications :
          WsBroadcast(n) =>
            LET entry == Len(ws.log) + 1 IN
            /\ ws'.messageBuffer # <<>>
            /\ ws'.messageBuffer[Len(ws'.messageBuffer)] = entry
            /\ \A c \in ClientIds :
                 ws'.clients[c].received =
                   IF ws.clients[c].state = "open" /\ MatchesFilter(n, ws.clients[c].filter)
                   THEN Append(ws.clients[c].received, entry)
                   ELSE ws.clients[c].received
     /\ WsPingClients =>
          \A c \in ClientIds :
            /\ ws'.clients[c].state # "closing"
            /\ ws.clients[c].state = "open" => ws'.clients[c] = ws.clients[c]]_vars

\* a broadcast has passed over a connected client whose socket is not open
\* and whose filter matches everything, and has reached an open client
C37_Witness ==
  \E c, d \in ClientIds :
    /\ ws.clients[c].state = "closing"
    /\ ws.clients[c].filter = EmptyFilter
    /\ ws.clients[d].state = "open"
    /\ ws.log # <<>>
    /\ Len(ws.log) \notin SeqSet(ws.clients[c].received)
    /\ Len(ws.log) \in SeqSet(ws.clients[d].received)

\* C38: an unsubscribe message resets the client's filter to empty, and an
\* empty filter matches everything: the client (its socket open) is sent
\* every broadcast notification, whatever its type, task or agent, and its
\* filter stays empty until it subscribes with a new filter.
C38_UnsubscribedGetsEverything ==
  [][\A c \in ClientIds :
       /\ WsUnsubscribe(c) => ws'.clients[c].filter = EmptyFilter
       /\ \A n \in Notifications :
            (WsBroadcast(n) /\ ws.clients[c].state = "open"
                            /\ ws.clients[c].filter = EmptyFilter) =>
               ws'.clients[c].received = Append(ws.clients[c].received, Len(ws.log) + 1)
       /\ (ws.clients[c].filter = EmptyFilter /\ ws'.clients[c].filter # EmptyFilter) =>
            \E f \in FilterMessages : WsSubscribe(c, f)]_vars

\* client 1, connected before client 2 and open ever since, missed the
\* first broadcast that client 2 got (its filter did not match), has an
\* empty filter again and got the second broadcast
C38_Witness ==
  /\ ws.clients[1].state = "open"
  /\ ws.clients[1].filter = EmptyFilter
  /\ Len(ws.log) = 2
  /\ 1 \in SeqSet(ws.clients[2].received)
  /\ 1 \notin SeqSet(ws.clients[1].received)
  /\ 2 \in SeqSet(ws.clients[1].received)

\* C39: the paused flag is true only while dailyUsedCents is at least
\* dailyLimitCents: after resetDailyBudget() brings the daily counter back
\* to 0 the flag is cleared and submissions are accepted again.
C39_PausedOnlyOverLimit ==
  budget.isPaused => budget.dailyUsedCents >= DailyLimitCents

\* C40: every executeTask call returns an execution id distinct from that
\* of every other execution still active, so tasks started within the same
\* millisecond are tracked as separate active jobs: the executor tracks as
\* many jobs as there are executions still awaited.
C40_DistinctExecutionIds ==
  LET awaited == {i \in 1..Len(mock.started) : mock.started[i].waiting}
  IN /\ \A i, j \in awaited :
          i # j => mock.started[i].executionId # mock.started[j].executionId
     /\ Cardinality({m \in Millis : mock.activeJobs[m] # NoId}) = Cardinality(awaited)

============================================================================
